---- MODULE Spec2Model ----
(***************************************************************************)
(* CPE discovery pipeline of tronnium: the request cache and rate limiter  *)
(* of Cpe.queryNvdApi, the progressive search of Cpe.progressiveSearch,    *)
(* Cpe.validateCpe and the SSE handler cpeFindHandler.                     *)
(*                                                                         *)
(* Execution model: Node.js runs one macrotask (an incoming HTTP request,  *)
(* a timer callback, an HTTP response callback) to completion, together    *)
(* with the promise continuations it triggers, before it runs the next.    *)
(* The variable "active" holds the caller whose macrotask is running; the  *)
(* clock and the other callers move only while no macrotask is running.    *)
(*                                                                         *)
(* Strings that the code joins with single spaces (queries) or splits on   *)
(* ':' (CPE names) are sequences of words; the empty string, null and      *)
(* undefined are the empty sequence.  Times are milliseconds.              *)
(***************************************************************************)
EXTENDS Integers, Sequences, FiniteSets, TLC

\* ------------------------------------------------------------------ bounds
NumProcs == 2        \* concurrent callers of the one Cpe instance
MaxTicks == 2        \* number of clock advances in one behaviour

\* ------------------------------------------------------- program constants
CACHE_TTL_MS == 300000
MIN_REQUEST_INTERVAL_MS == 6000
NARROW_TARGET == 10
DEFAULT_TOP_N == 5
TOP_N_CAP == 20
MIN_ASSET_NAME_LENGTH == 2

None == "none"
Procs == 1..NumProcs

\* Amounts by which the wall clock advances between macrotasks: they reach
\* both sides of MIN_REQUEST_INTERVAL_MS (5000, 5000 + 5000) and of
\* CACHE_TTL_MS (295000, 295000 + 5000 = CACHE_TTL_MS).
Delays == {MIN_REQUEST_INTERVAL_MS - 1000, CACHE_TTL_MS - 5000}

\* Date.now() when the process starts serving: far from lastRequestTime = 0.
StartTime == CACHE_TTL_MS

Min(a, b) == IF a <= b THEN a ELSE b

\* ------------------------------------------------------------------ inputs
\* ParsedAsset values as Cpe.parseAsset returns them, for the raw texts
\*   "OpenSSL", "Apache HTTP Server 2.4.51", "2.4.51",
\*   "Microsoft Office 2019 16".
ParsedAssets ==
  { [raw |-> <<"OpenSSL">>, vendor |-> <<"openssl">>, product |-> <<"openssl">>,
     version |-> <<>>, versionCandidates |-> <<>>],
    [raw |-> <<"Apache", "HTTP", "Server", "2.4.51">>, vendor |-> <<"apache">>,
     product |-> <<"http", "server">>, version |-> <<"2.4.51">>,
     versionCandidates |-> <<"2.4.51">>],
    [raw |-> <<"2.4.51">>, vendor |-> <<>>, product |-> <<>>,
     version |-> <<"2.4.51">>, versionCandidates |-> <<"2.4.51">>],
    [raw |-> <<"Microsoft", "Office", "2019", "16">>, vendor |-> <<"microsoft">>,
     product |-> <<"office">>, version |-> <<>>,
     versionCandidates |-> <<"2019", "16">>] }

NoAsset == [raw |-> <<>>, vendor |-> <<>>, product |-> <<>>, version |-> <<>>,
            versionCandidates |-> <<>>]

\* Values of the topN query parameter, as strings: absent, in range, above
\* the cap.
TopNs == {"", "1", "25"}

\* Number(topN) for the strings of TopNs.
NumberOf(s) == CASE s = "1" -> 1 [] s = "25" -> 25 [] OTHER -> 0

\* assetName query parameters: the text and the length of its trimmed form.
AssetNames ==
  { [text |-> <<"OpenSSL">>, length |-> 7],
    [text |-> <<"Apache", "HTTP", "Server", "2.4.51">>, length |-> 25],
    [text |-> <<"2.4.51">>, length |-> 6],
    [text |-> <<"Microsoft", "Office", "2019", "16">>, length |-> 24],
    [text |-> <<>>, length |-> 0],
    [text |-> <<"a">>, length |-> 1] }

\* Cpe.parseAsset on the texts of AssetNames.
ParseAsset(text) ==
  IF \E a \in ParsedAssets : a.raw = text
  THEN CHOOSE a \in ParsedAssets : a.raw = text
  ELSE [NoAsset EXCEPT !.raw = text]

\* CPE strings handed to validateCpe, split on ':': well-formed in lower and
\* in mixed case, the legacy 2.2 prefix, no cpe prefix, a wildcard and an
\* empty vendor, an unknown part, too few components.
CpeStrings ==
  { <<"cpe", "2.3", "a", "openssl", "openssl", "1.1.1">>,
    <<"CPE", "2.3", "A", "OpenSSL", "openssl", "1.1.1">>,
    <<"cpe", "/a", "openssl", "openssl", "1.1.1">>,
    <<"openssl", "1.1.1">>,
    <<"cpe", "2.3", "a", "*", "openssl", "1.1.1">>,
    <<"cpe", "2.3", "a", "", "openssl", "1.1.1">>,
    <<"cpe", "2.3", "x", "openssl", "openssl", "1.1.1">>,
    <<"cpe", "2.3", "a", "openssl">> }

\* toLowerCase on the words of CpeStrings and of the catalog's names.
LowerWord(w) ==
  CASE w = "CPE" -> "cpe" [] w = "A" -> "a" [] w = "OpenSSL" -> "openssl" [] OTHER -> w

\* cpeString.toLowerCase(), field by field
LowerFields(fields) == [i \in 1..Len(fields) |-> LowerWord(fields[i])]

\* ----------------------------------------------------------------- catalog
\* totalResults values a reply can report: none, at and around the threshold.
Totals == {0, NARROW_TARGET, NARROW_TARGET + 1, NARROW_TARGET + 2}

Product(part, words) ==
  [cpeName |-> <<"cpe", "2.3", part>> \o words, deprecated |-> FALSE]

\* The page of products the catalog holds for a query.
PageOf(key) ==
  IF key[1] # <<>> THEN << [cpeName |-> key[1], deprecated |-> FALSE] >>
  ELSE << Product("a", key[2]), Product("o", key[2]) >>

\* The replies the catalog can give to a query: any total, with the page of
\* the query or without products.
Replies(key, totals) ==
  { [totalResults |-> t, products |-> pg] : t \in totals, pg \in {<<>>, PageOf(key)} }

AllReplies(key) == Replies(key, Totals)

NoData == [totalResults |-> 0, products |-> <<>>]

VARIABLE clock            \* Date.now()
VARIABLE ticks            \* number of clock advances so far
VARIABLE lastRequestTime  \* Cpe.lastRequestTime
VARIABLE cache            \* Cpe.cache: cacheKey -> [data, timestamp]
VARIABLE requests         \* log of the outbound requests (axios.get), in issue order
VARIABLE arrivals         \* number of queryNvdApi calls that reached the rate limiter
VARIABLE active           \* the callers whose macrotask is running: none or one
VARIABLE proc             \* per caller: handler, progressiveSearch and queryNvdApi frames

vars == <<clock, ticks, lastRequestTime, cache, requests, arrivals, active, proc>>

NoResult == [isValid |-> FALSE, existsInNvd |-> FALSE, exactMatch |-> FALSE,
             deprecated |-> FALSE, message |-> None]

\* A caller before its request arrives.
InitProc ==
  [kind |-> None, pc |-> "idle",
   \* cpeFindHandler: the query parameters, the HTTP status, the events
   assetName |-> [text |-> <<>>, length |-> 0],
   topN |-> "", status |-> 0, resultLimit |-> 0, events |-> <<>>, closed |-> FALSE,
   \* the consumer closed the connection; the numbers of requests and of
   \* events of this caller at that moment
   cancelled |-> FALSE, requestsAtCancel |-> 0, eventsAtCancel |-> 0,
   \* findCpe / progressiveSearch
   parsed |-> NoAsset, site |-> None, search1Results |-> <<>>,
   currentResults |-> <<>>, queryParts |-> <<>>, candIdx |-> 0, results |-> <<>>,
   \* validateCpe
   cpeString |-> <<>>, vresult |-> NoResult,
   \* queryNvdApi
   cpe |-> <<>>, keyword |-> <<>>, wakeAt |-> 0, ret |-> NoData,
   \* history of the current queryNvdApi call: its arrival number at the rate
   \* limiter, whether the limiter held it, the age of the cache entry it
   \* found too old (-1: no entry), the index of its request in the log
   arrival |-> 0, waited |-> FALSE, entryAge |-> -1, reqIdx |-> 0,
   \* history: the replies this caller's queries obtained, in order
   obtained |-> <<>>]

Init ==
  /\ clock = StartTime
  /\ ticks = 0
  /\ lastRequestTime = 0
  /\ cache = <<>>
  /\ requests = <<>>
  /\ arrivals = 0
  /\ active = {}
  /\ proc = [p \in Procs |-> InitProc]

\* ------------------------------------------------------------- queryNvdApi
CacheKey(cpe, keyword) == <<cpe, keyword>>

\* Mutant: the boundary age CACHE_TTL_MS counts as fresh.
CacheFreshInclusive(entry, now) == now - entry.timestamp <= CACHE_TTL_MS

\* cached && Date.now() - cached.timestamp < CACHE_TTL_MS
CacheFresh(entry, now) == now - entry.timestamp < CACHE_TTL_MS

CacheHit(key, now) == key \in DOMAIN cache /\ CacheFresh(cache[key], now)

\* timeSinceLastRequest < MIN_REQUEST_INTERVAL_MS
MustWait(now, last) == now - last < MIN_REQUEST_INTERVAL_MS

\* waitTime = MIN_REQUEST_INTERVAL_MS - timeSinceLastRequest
WaitTime(now, last) == MIN_REQUEST_INTERVAL_MS - (now - last)

\* Lines 61-73: stamp lastRequestTime, build the URL, start axios.get.
\* f is the caller's frame; the result is the frame after the step.
StartFetch(f) ==
  IF f.cpe = <<>> /\ f.keyword = <<>> THEN [f EXCEPT !.pc = "throw"]
  ELSE [f EXCEPT !.pc = "fetching", !.reqIdx = Len(requests) + 1]

LogRequest(p, f) ==
  IF f.cpe = <<>> /\ f.keyword = <<>> THEN requests
  ELSE Append(requests, [proc |-> p, key |-> CacheKey(f.cpe, f.keyword),
                         time |-> clock, arrival |-> f.arrival,
                         waited |-> f.waited, entryAge |-> f.entryAge,
                         outcome |-> "pending"])

\* Mutant: a call answered from the cache counts as a request and stamps
\* lastRequestTime.
QueryNvdApiStampsOnHit(p) ==
  /\ active = {p}
  /\ proc[p].pc = "lookup"
  /\ LET f == proc[p]
         key == CacheKey(f.cpe, f.keyword)
     IN IF CacheHit(key, clock)
        THEN /\ proc' = [proc EXCEPT ![p] =
                  [f EXCEPT !.pc = "resume", !.ret = cache[key].data,
                            !.obtained = Append(@, [site |-> f.site,
                                 data |-> cache[key].data, fromCache |-> TRUE,
                                 age |-> clock - cache[key].timestamp])]]
             /\ lastRequestTime' = clock
             /\ UNCHANGED <<requests, arrivals, active>>
        ELSE LET g == [f EXCEPT !.arrival = arrivals + 1,
                                !.waited = MustWait(clock, lastRequestTime),
                                !.entryAge = IF key \in DOMAIN cache
                                             THEN clock - cache[key].timestamp
                                             ELSE -1]
             IN /\ arrivals' = arrivals + 1
                /\ IF MustWait(clock, lastRequestTime)
                   THEN /\ proc' = [proc EXCEPT ![p] =
                             [g EXCEPT !.pc = "waiting",
                                       !.wakeAt = clock + WaitTime(clock, lastRequestTime)]]
                        /\ active' = {}
                        /\ UNCHANGED <<lastRequestTime, requests>>
                   ELSE /\ lastRequestTime' = clock
                        /\ requests' = LogRequest(p, g)
                        /\ proc' = [proc EXCEPT ![p] = StartFetch(g)]
                        /\ active' = IF StartFetch(g).pc = "throw" THEN {p} ELSE {}
  /\ UNCHANGED <<clock, ticks, cache>>

\* queryNvdApi up to its first suspension: cache lookup, then the rate limiter.
QueryNvdApi(p) ==
  /\ active = {p}
  /\ proc[p].pc = "lookup"
  /\ LET f == proc[p]
         key == CacheKey(f.cpe, f.keyword)
     IN IF CacheHit(key, clock)
        THEN /\ proc' = [proc EXCEPT ![p] =
                  [f EXCEPT !.pc = "resume", !.ret = cache[key].data,
                            !.obtained = Append(@, [site |-> f.site,
                                 data |-> cache[key].data, fromCache |-> TRUE,
                                 age |-> clock - cache[key].timestamp])]]
             /\ UNCHANGED <<lastRequestTime, requests, arrivals, active>>
        ELSE LET g == [f EXCEPT !.arrival = arrivals + 1,
                                !.waited = MustWait(clock, lastRequestTime),
                                !.entryAge = IF key \in DOMAIN cache
                                             THEN clock - cache[key].timestamp
                                             ELSE -1]
             IN /\ arrivals' = arrivals + 1
                /\ IF MustWait(clock, lastRequestTime)
                   THEN /\ proc' = [proc EXCEPT ![p] =
                             [g EXCEPT !.pc = "waiting",
                                       !.wakeAt = clock + WaitTime(clock, lastRequestTime)]]
                        /\ active' = {}
                        /\ UNCHANGED <<lastRequestTime, requests>>
                   ELSE /\ lastRequestTime' = clock
                        /\ requests' = LogRequest(p, g)
                        /\ proc' = [proc EXCEPT ![p] = StartFetch(g)]
                        /\ active' = IF StartFetch(g).pc = "throw" THEN {p} ELSE {}
  /\ UNCHANGED <<clock, ticks, cache>>

\* Mutant: the woken caller books the next slot, stamping lastRequestTime
\* with the time at which the following request may go out.
TimerFireBooksNextSlot(p) ==
  /\ active = {}
  /\ proc[p].pc = "waiting"
  /\ clock >= proc[p].wakeAt
  /\ lastRequestTime' = clock + MIN_REQUEST_INTERVAL_MS
  /\ requests' = LogRequest(p, proc[p])
  /\ proc' = [proc EXCEPT ![p] = StartFetch(proc[p])]
  /\ active' = IF StartFetch(proc[p]).pc = "throw" THEN {p} ELSE {}
  /\ UNCHANGED <<clock, ticks, cache, arrivals>>

\* The setTimeout callback of line 59 runs once its delay has elapsed; the
\* runtime chooses the order in which callbacks that are due run.
TimerFire(p) ==
  /\ active = {}
  /\ proc[p].pc = "waiting"
  /\ clock >= proc[p].wakeAt
  /\ lastRequestTime' = clock
  /\ requests' = LogRequest(p, proc[p])
  /\ proc' = [proc EXCEPT ![p] = StartFetch(proc[p])]
  /\ active' = IF StartFetch(proc[p]).pc = "throw" THEN {p} ELSE {}
  /\ UNCHANGED <<clock, ticks, cache, arrivals>>

\* The cache key of the queryNvdApi call caller p is in.
KeyOf(p) == CacheKey(proc[p].cpe, proc[p].keyword)

\* Lines 73-78: the catalog answers with one of the given replies; the reply
\* is cached and returned.
Respond(p, replies) ==
  /\ active = {}
  /\ proc[p].pc = "fetching"
  /\ \E data \in replies :
       /\ cache' = (CacheKey(proc[p].cpe, proc[p].keyword) :>
                       [data |-> data, timestamp |-> clock]) @@ cache
       /\ proc' = [proc EXCEPT ![p].pc = "resume", ![p].ret = data,
                               ![p].obtained = Append(@, [site |-> proc[p].site,
                                    data |-> data, fromCache |-> FALSE, age |-> 0])]
  /\ requests' = [requests EXCEPT ![proc[p].reqIdx].outcome = "ok"]
  /\ active' = {p}
  /\ UNCHANGED <<clock, ticks, lastRequestTime, arrivals>>

\* Line 73: axios.get rejects (network error, non-2xx status).
FailRequest(p) ==
  /\ active = {}
  /\ proc[p].pc = "fetching"
  /\ proc' = [proc EXCEPT ![p].pc = "throw"]
  /\ requests' = [requests EXCEPT ![proc[p].reqIdx].outcome = "failed"]
  /\ active' = {p}
  /\ UNCHANGED <<clock, ticks, lastRequestTime, cache, arrivals>>

\* Wall-clock time passes between macrotasks.  A timer callback that is due
\* runs before more time passes.
Tick(d) ==
  /\ active = {}
  /\ ticks < MaxTicks
  /\ \A p \in Procs : proc[p].pc = "waiting" => clock < proc[p].wakeAt
  /\ clock' = clock + d
  /\ ticks' = ticks + 1
  /\ UNCHANGED <<lastRequestTime, cache, requests, arrivals, active, proc>>

\* ------------------------------------------------------- progressiveSearch
\* data.products || []
ProductsOf(data) == data.products

\* data.totalResults || 0
TotalOf(data) == data.totalResults

\* vendor === product ? vendor : `${vendor} ${product}`.trim()
BaseQuery(parsed) ==
  IF parsed.vendor = parsed.product THEN parsed.vendor
  ELSE parsed.vendor \o parsed.product

\* return <value> from progressiveSearch
ReturnResults(f, value) == [f EXCEPT !.pc = "return", !.results = value]

\* await this.queryNvdApi('', query) at the call site "site"
CallQuery(f, site, query) ==
  [f EXCEPT !.pc = "lookup", !.site = site, !.cpe = <<>>, !.keyword = query]

\* Lines 345-362: entry of progressiveSearch up to its first query.
StartSearch(f) ==
  IF BaseQuery(f.parsed) = <<>>
  THEN CallQuery(f, "raw", f.parsed.raw)
  ELSE CallQuery(f, "base", BaseQuery(f.parsed))

\* Lines 403-407: one iteration of the narrowing loop up to its query, or
\* lines 424-425 when the candidates are exhausted.
NextCandidate(f) ==
  IF f.candIdx < Len(f.parsed.versionCandidates)
  THEN LET parts == f.queryParts \o <<f.parsed.versionCandidates[f.candIdx + 1]>>
       IN CallQuery([f EXCEPT !.queryParts = parts, !.candIdx = @ + 1],
                    "cand", parts)
  ELSE ReturnResults(f, f.currentResults)

\* Mutant: the query parts of the narrowing loop start without the base
\* query.
StartNarrowingWithoutBase(f) ==
  IF Len(f.parsed.versionCandidates) = 0
  THEN ReturnResults(f, f.search1Results)
  ELSE NextCandidate([f EXCEPT !.currentResults = f.search1Results,
                               !.queryParts = << >>,
                               !.candIdx = 0])

\* Lines 393-401: the fallback to the version candidates.
StartNarrowing(f) ==
  IF Len(f.parsed.versionCandidates) = 0
  THEN ReturnResults(f, f.search1Results)
  ELSE NextCandidate([f EXCEPT !.currentResults = f.search1Results,
                               !.queryParts = BaseQuery(f.parsed),
                               !.candIdx = 0])

\* Line 358: the raw-input query returned.
AfterRaw(f, data) == ReturnResults(f, ProductsOf(data))

\* Mutant: the base result counts as small only below NARROW_TARGET.
AfterBaseStrict(f, data) ==
  LET g == [f EXCEPT !.search1Results = ProductsOf(data)]
  IN IF TotalOf(data) < NARROW_TARGET
     THEN ReturnResults(g, IF TotalOf(data) >= 1 THEN ProductsOf(data) ELSE <<>>)
     ELSE IF f.parsed.version # <<>>
          THEN CallQuery(g, "version", BaseQuery(f.parsed) \o f.parsed.version)
          ELSE StartNarrowing(g)

\* Lines 363-391: the base query returned.
AfterBase(f, data) ==
  LET g == [f EXCEPT !.search1Results = ProductsOf(data)]
  IN IF TotalOf(data) <= NARROW_TARGET
     THEN ReturnResults(g, IF TotalOf(data) >= 1 THEN ProductsOf(data) ELSE <<>>)
     ELSE IF f.parsed.version # <<>>
          THEN CallQuery(g, "version", BaseQuery(f.parsed) \o f.parsed.version)
          ELSE StartNarrowing(g)

\* Mutant: an empty version result is returned instead of the base result.
AfterVersionKeepsVersion(f, data) ==
  IF TotalOf(data) <= NARROW_TARGET
  THEN ReturnResults(f, ProductsOf(data))
  ELSE StartNarrowing(f)

\* Lines 377-401: the version query returned.
AfterVersion(f, data) ==
  IF TotalOf(data) >= 1 /\ TotalOf(data) <= NARROW_TARGET
  THEN ReturnResults(f, ProductsOf(data))
  ELSE IF TotalOf(data) = 0
       THEN ReturnResults(f, f.search1Results)
       ELSE StartNarrowing(f)

\* Mutant: an overshoot to zero falls back to the base result.
AfterCandidateReturnsBase(f, data) ==
  IF TotalOf(data) = 0
  THEN ReturnResults(f, f.search1Results)
  ELSE LET g == [f EXCEPT !.currentResults = ProductsOf(data)]
       IN IF TotalOf(data) <= NARROW_TARGET
          THEN ReturnResults(g, g.currentResults)
          ELSE NextCandidate(g)

\* Mutant: the overshoot to zero is not detected; the empty set is returned.
AfterCandidateReturnsEmpty(f, data) ==
  LET g == [f EXCEPT !.currentResults = ProductsOf(data)]
  IN IF TotalOf(data) <= NARROW_TARGET
     THEN ReturnResults(g, g.currentResults)
     ELSE NextCandidate(g)

\* Lines 408-425: a query of the narrowing loop returned.
AfterCandidate(f, data) ==
  IF TotalOf(data) = 0
  THEN ReturnResults(f, f.currentResults)
  ELSE LET g == [f EXCEPT !.currentResults = ProductsOf(data)]
       IN IF TotalOf(data) <= NARROW_TARGET
          THEN ReturnResults(g, g.currentResults)
          ELSE NextCandidate(g)

\* progressiveSearch continues after an awaited queryNvdApi returned.
ProgressiveSearch(p) ==
  /\ active = {p}
  /\ proc[p].kind = "find"
  /\ proc[p].pc = "resume"
  /\ LET f == proc[p]
     IN proc' = [proc EXCEPT ![p] =
          CASE f.site = "raw" -> AfterRaw(f, f.ret)
            [] f.site = "base" -> AfterBase(f, f.ret)
            [] f.site = "version" -> AfterVersion(f, f.ret)
            [] OTHER -> AfterCandidate(f, f.ret)]
  /\ UNCHANGED <<clock, ticks, lastRequestTime, cache, requests, arrivals, active>>

\* ---------------------------------------------------------- cpeFindHandler
Event(type, step) ==
  [type |-> type, step |-> step, candidates |-> <<>>, count |-> 0, totalFound |-> 0]

\* Mutant: the caller's topN is taken as it is, without the cap.
ResultLimitUncapped(topN) ==
  IF topN # "" /\ NumberOf(topN) > 0 THEN NumberOf(topN)
  ELSE DEFAULT_TOP_N

\* topN && !isNaN(Number(topN)) && Number(topN) > 0 ? Math.min(Number(topN), 20) : 5
ResultLimit(topN) ==
  IF topN # "" /\ NumberOf(topN) > 0 THEN Min(NumberOf(topN), TOP_N_CAP)
  ELSE DEFAULT_TOP_N

HasCpeName(product) == product.cpeName # <<>>

\* Mutant: ranking works against a deadline on the shared clock and returns
\* nothing once it has passed.
RankedNamesByDeadline(results, limit) ==
  LET scored == SelectSeq(results, HasCpeName)
  IN IF clock > StartTime THEN << >>
     ELSE [i \in 1..Min(limit, Len(scored)) |-> scored[i].cpeName]

\* The cpeNames of rankCpeCandidates(parsed, results, limit): the products that
\* carry a cpeName are scored, sorted and cut to the first limit.  The scores
\* are not part of this state: the candidates are taken to score equally, so
\* that the sort keeps their order.
RankedNames(results, limit) ==
  LET scored == SelectSeq(results, HasCpeName)
  IN [i \in 1..Min(limit, Len(scored)) |-> scored[i].cpeName]

\* rankedCandidates.length
RankedCount(results, limit) == Len(RankedNames(results, limit))

\* The onProgress calls of rankCpeCandidates, which are made only when the
\* caller passes a callback.
RankProgress(onProgress) ==
  IF onProgress
  THEN << Event("progress", "scoring"), Event("progress", "ranking"),
          Event("progress", "ranking") >>
  ELSE << >>

\* Lines 79-120: the request arrives; input validation, SSE headers, the
\* parsing event, parseAsset and the entry of progressiveSearch.
CpeFindStart(p, assetName, topN) ==
  /\ active = {}
  /\ proc[p].pc = "idle"
  /\ IF assetName.text = <<>> \/ assetName.length < MIN_ASSET_NAME_LENGTH
     THEN /\ proc' = [proc EXCEPT ![p].kind = "find", ![p].pc = "done",
                                  ![p].assetName = assetName, ![p].topN = topN,
                                  ![p].status = 400]
          /\ active' = {}
     ELSE /\ proc' = [proc EXCEPT ![p] =
               StartSearch([proc[p] EXCEPT
                  !.kind = "find",
                  !.assetName = assetName,
                  !.topN = topN,
                  !.resultLimit = ResultLimit(topN),
                  !.status = 200,
                  !.events = <<Event("progress", "parsing")>>,
                  !.parsed = ParseAsset(assetName.text)])]
          /\ active' = {p}
  /\ UNCHANGED <<clock, ticks, lastRequestTime, cache, requests, arrivals>>

\* The completed event of lines 130-157.
Completed(results, limit) ==
  [type |-> "completed", step |-> "completed",
   candidates |-> RankedNames(results, limit),
   count |-> RankedCount(results, limit),
   totalFound |-> Len(results)]

\* Mutant: the handler passes sendProgress to rankCpeCandidates as onProgress.
CpeFindCompleteWithProgress(p) ==
  /\ active = {p}
  /\ proc[p].kind = "find"
  /\ proc[p].pc = "return"
  /\ LET f == proc[p]
     IN proc' = [proc EXCEPT ![p].pc = "done", ![p].closed = TRUE,
          ![p].events = f.events \o << Event("progress", "ranking") >>
             \o RankProgress(TRUE)
             \o << Completed(f.results, f.resultLimit) >>]
  /\ active' = {}
  /\ UNCHANGED <<clock, ticks, lastRequestTime, cache, requests, arrivals>>

\* Lines 122-159: findCpe returned; ranking event, rankCpeCandidates (called
\* without a progress callback), completed event, res.end().
CpeFindComplete(p) ==
  /\ active = {p}
  /\ proc[p].kind = "find"
  /\ proc[p].pc = "return"
  /\ LET f == proc[p]
     IN proc' = [proc EXCEPT ![p].pc = "done", ![p].closed = TRUE,
          ![p].events = f.events \o << Event("progress", "ranking") >>
             \o RankProgress(FALSE)
             \o << Completed(f.results, f.resultLimit) >>]
  /\ active' = {}
  /\ UNCHANGED <<clock, ticks, lastRequestTime, cache, requests, arrivals>>

\* The consumer of the event stream closes the connection while the pipeline
\* is suspended (waiting at the rate limiter or for the catalog).  The handler
\* registers no listener for it and findCpe takes no abort signal: only the
\* history fields change.
ConsumerCancel(p) ==
  /\ active = {}
  /\ proc[p].kind = "find"
  /\ proc[p].pc \in {"waiting", "fetching"}
  /\ ~proc[p].cancelled
  /\ proc' = [proc EXCEPT ![p].cancelled = TRUE,
                          ![p].requestsAtCancel =
                             Cardinality({i \in 1..Len(requests) : requests[i].proc = p}),
                          ![p].eventsAtCancel = Len(proc[p].events)]
  /\ UNCHANGED <<clock, ticks, lastRequestTime, cache, requests, arrivals, active>>

\* Mutant: the catch block writes the error event and leaves the stream open.
CpeFindCatchNoEnd(p) ==
  /\ active = {p}
  /\ proc[p].kind = "find"
  /\ proc[p].pc = "throw"
  /\ proc' = [proc EXCEPT ![p].pc = "done",
                          ![p].events = Append(@, Event("error", "error"))]
  /\ active' = {}
  /\ UNCHANGED <<clock, ticks, lastRequestTime, cache, requests, arrivals>>

\* Lines 160-164: the catch block; error event, res.end().
CpeFindCatch(p) ==
  /\ active = {p}
  /\ proc[p].kind = "find"
  /\ proc[p].pc = "throw"
  /\ proc' = [proc EXCEPT ![p].pc = "done", ![p].closed = TRUE,
                          ![p].events = Append(@, Event("error", "error"))]
  /\ active' = {}
  /\ UNCHANGED <<clock, ticks, lastRequestTime, cache, requests, arrivals>>

\* ------------------------------------------------------------- validateCpe
\* Mutant: the vendor attribute is not checked.
ParseCpeAnyVendor(cpeString) ==
  LET fields == LowerFields(cpeString)
  IN
  IF cpeString = <<>> THEN [valid |-> FALSE, error |-> "empty"]
  ELSE IF ~(Len(fields) >= 3 /\ fields[1] = "cpe" /\ fields[2] = "2.3")
  THEN IF Len(fields) >= 2 /\ fields[1] = "cpe" /\ fields[2] = "/a"
       THEN [valid |-> FALSE, error |-> "cpe22"]
       ELSE [valid |-> FALSE, error |-> "prefix"]
  ELSE IF Len(fields) < 5 THEN [valid |-> FALSE, error |-> "components"]
  ELSE IF fields[3] \notin {"a", "o", "h"} THEN [valid |-> FALSE, error |-> "part"]
  ELSE [valid |-> TRUE, error |-> None]

\* Cpe.parseCpe: the syntactic checks, on the ':'-separated fields of the
\* trimmed, lower-cased string.
ParseCpe(cpeString) ==
  LET fields == LowerFields(cpeString)
  IN
  IF cpeString = <<>> THEN [valid |-> FALSE, error |-> "empty"]
  ELSE IF ~(Len(fields) >= 3 /\ fields[1] = "cpe" /\ fields[2] = "2.3")
  THEN IF Len(fields) >= 2 /\ fields[1] = "cpe" /\ fields[2] = "/a"
       THEN [valid |-> FALSE, error |-> "cpe22"]
       ELSE [valid |-> FALSE, error |-> "prefix"]
  ELSE IF Len(fields) < 5 THEN [valid |-> FALSE, error |-> "components"]
  ELSE IF fields[3] \notin {"a", "o", "h"} THEN [valid |-> FALSE, error |-> "part"]
  ELSE IF fields[4] = "" \/ fields[4] = "*" THEN [valid |-> FALSE, error |-> "vendor"]
  ELSE [valid |-> TRUE, error |-> None]

ValidationResult(isValid, existsInNvd, exactMatch, deprecated, message) ==
  [isValid |-> isValid, existsInNvd |-> existsInNvd, exactMatch |-> exactMatch,
   deprecated |-> deprecated, message |-> message]

\* Lines 537-559: the call arrives; the local format check, then the query.
ValidateCpeStart(p, cpeString) ==
  /\ active = {}
  /\ proc[p].pc = "idle"
  /\ IF ~ParseCpe(cpeString).valid
     THEN /\ proc' = [proc EXCEPT ![p].kind = "validate", ![p].pc = "done",
                 ![p].cpeString = cpeString,
                 ![p].vresult = ValidationResult(FALSE, FALSE, FALSE, FALSE,
                                                 ParseCpe(cpeString).error)]
          /\ active' = {}
     ELSE /\ proc' = [proc EXCEPT ![p].kind = "validate", ![p].pc = "lookup",
                 ![p].cpeString = cpeString, ![p].site = "validate",
                 ![p].cpe = LowerFields(cpeString), ![p].keyword = <<>>]
          /\ active' = {p}
  /\ UNCHANGED <<clock, ticks, lastRequestTime, cache, requests, arrivals>>

\* Mutant: the names are compared as they are, capitals included.
ClassifyCaseSensitive(cpeString, data) ==
  LET products == ProductsOf(data)
      Same(j) == products[j].cpeName = cpeString
  IN IF TotalOf(data) = 0
     THEN ValidationResult(TRUE, FALSE, FALSE, FALSE, "absent")
     ELSE IF \E i \in 1..Len(products) : Same(i)
          THEN LET i == CHOOSE j \in 1..Len(products) :
                          Same(j) /\ \A k \in 1..(j - 1) : ~Same(k)
               IN ValidationResult(TRUE, TRUE, TRUE, products[i].deprecated, "exact")
          ELSE ValidationResult(TRUE, TRUE, FALSE, FALSE, "partial")

\* Lines 560-608: classification of the catalog reply.
Classify(cpeString, data) ==
  LET normalizedInput == LowerFields(cpeString)
      products == ProductsOf(data)
      Same(j) == LowerFields(products[j].cpeName) = normalizedInput
  IN IF TotalOf(data) = 0
     THEN ValidationResult(TRUE, FALSE, FALSE, FALSE, "absent")
     ELSE IF \E i \in 1..Len(products) : Same(i)
          THEN LET i == CHOOSE j \in 1..Len(products) :
                          Same(j) /\ \A k \in 1..(j - 1) : ~Same(k)
               IN ValidationResult(TRUE, TRUE, TRUE, products[i].deprecated, "exact")
          ELSE ValidationResult(TRUE, TRUE, FALSE, FALSE, "partial")

ValidateCpeReturn(p) ==
  /\ active = {p}
  /\ proc[p].kind = "validate"
  /\ proc[p].pc = "resume"
  /\ proc' = [proc EXCEPT ![p].pc = "done",
                          ![p].vresult = Classify(proc[p].cpeString, proc[p].ret)]
  /\ active' = {}
  /\ UNCHANGED <<clock, ticks, lastRequestTime, cache, requests, arrivals>>

\* Mutant: a failed lookup is reported as an invalid CPE.
ValidateCpeCatchInvalid(p) ==
  /\ active = {p}
  /\ proc[p].kind = "validate"
  /\ proc[p].pc = "throw"
  /\ proc' = [proc EXCEPT ![p].pc = "done",
                          ![p].vresult = ValidationResult(FALSE, FALSE, FALSE, FALSE,
                                                          "lookup failed")]
  /\ active' = {}
  /\ UNCHANGED <<clock, ticks, lastRequestTime, cache, requests, arrivals>>

\* Lines 610-621: the catch block of validateCpe.
ValidateCpeCatch(p) ==
  /\ active = {p}
  /\ proc[p].kind = "validate"
  /\ proc[p].pc = "throw"
  /\ proc' = [proc EXCEPT ![p].pc = "done",
                          ![p].vresult = ValidationResult(TRUE, FALSE, FALSE, FALSE,
                                                          "lookup failed")]
  /\ active' = {}
  /\ UNCHANGED <<clock, ticks, lastRequestTime, cache, requests, arrivals>>

\* ----------------------------------------------------------- specification
\* Concurrent callers: every interleaving of NumProcs findCpe pipelines and
\* validateCpe calls on the shared cache and rate limiter, for assets whose
\* searches take one and up to three queries.
ConcurrentAssetNames ==
  { a \in AssetNames : a.text \in { <<"OpenSSL">>,
                                    <<"Apache", "HTTP", "Server", "2.4.51">> } }

ConcurrentCpeStrings == { c \in CpeStrings : ParseCpe(c).valid }

\* Replies in which the products agree with the total: nothing found, or
\* more than NARROW_TARGET found and the first page returned.
ConcurrentReplies(key) ==
  { [totalResults |-> 0, products |-> <<>>],
    [totalResults |-> NARROW_TARGET + 1, products |-> PageOf(key)] }

Next ==
  \/ \E p \in Procs, a \in ConcurrentAssetNames : CpeFindStart(p, a, "")
  \/ \E p \in Procs, c \in ConcurrentCpeStrings : ValidateCpeStart(p, c)
  \/ \E p \in Procs : QueryNvdApi(p)
  \/ \E p \in Procs : TimerFire(p)
  \/ \E p \in Procs : Respond(p, ConcurrentReplies(KeyOf(p)))
  \/ \E p \in Procs : FailRequest(p)
  \/ \E p \in Procs : ProgressiveSearch(p)
  \/ \E p \in Procs : CpeFindComplete(p)
  \/ \E p \in Procs : CpeFindCatch(p)
  \/ \E p \in Procs : ValidateCpeReturn(p)
  \/ \E p \in Procs : ValidateCpeCatch(p)
  \/ \E d \in Delays : Tick(d)

Spec == Init /\ [][Next]_vars

\* One caller at a time: a single findCpe pipeline or validateCpe call, on
\* every input and every catalog reply.
SearchProcs == {1}

\* Pages the catalog can return for a cpeMatchString: nothing, the queried
\* name, the name in the catalog's own capitals, another version of it, and
\* two records of which the second or both are the queried name; current
\* or deprecated.
MatchPages(key) ==
  LET same == key[1]
      capitals == [same EXCEPT ![4] = "OpenSSL"]
      other == [same EXCEPT ![Len(same)] = "1.1.0"]
      Record(name, deprecated) == [cpeName |-> name, deprecated |-> deprecated]
  IN { << >>, << Record(same, FALSE) >>, << Record(capitals, TRUE) >>,
       << Record(other, TRUE) >>, << Record(other, FALSE), Record(same, TRUE) >>,
       << Record(capitals, TRUE), Record(same, FALSE) >> }

\* The replies to validateCpe's query: a total and a page, which a sound
\* catalog keeps in agreement and a faulty one need not.
MatchReplies(key) ==
  { [totalResults |-> t, products |-> pg] : t \in {0, 1, 2}, pg \in MatchPages(key) }

\* The replies to the query caller p is in.
SearchReplies(p) ==
  IF proc[p].kind = "validate" THEN MatchReplies(KeyOf(p)) ELSE AllReplies(KeyOf(p))

NextSearch ==
  \/ \E p \in SearchProcs, a \in AssetNames, n \in TopNs : CpeFindStart(p, a, n)
  \/ \E p \in SearchProcs, c \in CpeStrings : ValidateCpeStart(p, c)
  \/ \E p \in SearchProcs : QueryNvdApi(p)
  \/ \E p \in SearchProcs : TimerFire(p)
  \/ \E p \in SearchProcs : Respond(p, SearchReplies(p))
  \/ \E p \in SearchProcs : FailRequest(p)
  \/ \E p \in SearchProcs : ProgressiveSearch(p)
  \/ \E p \in SearchProcs : CpeFindComplete(p)
  \/ \E p \in SearchProcs : CpeFindCatch(p)
  \/ \E p \in SearchProcs : ConsumerCancel(p)
  \/ \E p \in SearchProcs : ValidateCpeReturn(p)
  \/ \E p \in SearchProcs : ValidateCpeCatch(p)
  \/ \E d \in Delays : Tick(d)

SpecSearch == Init /\ [][NextSearch]_vars

\* The steps the program itself takes: the event loop runs every macrotask
\* and promise continuation that is ready, and timers that are due.
ProgramStep ==
  \E p \in SearchProcs :
     \/ QueryNvdApi(p) \/ TimerFire(p) \/ ProgressiveSearch(p)
     \/ CpeFindComplete(p) \/ CpeFindCatch(p)
     \/ ValidateCpeReturn(p) \/ ValidateCpeCatch(p)

\* One caller under the scheduling the runtime guarantees: ready program
\* steps are taken and time passes.  Nothing obliges the catalog to answer or
\* the connection to fail, and the consumer need not cancel.
SpecSearchFair ==
  /\ SpecSearch
  /\ WF_vars(ProgramStep)
  /\ WF_vars(\E d \in Delays : Tick(d))

\* Concurrent validateCpe calls: every interleaving of NumProcs callers that
\* each make one queryNvdApi call for a well-formed CPE string, which the
\* catalog holds or not.
ValidateReplies(key) == Replies(key, {0, 1})

NextValidate ==
  \/ \E p \in Procs, c \in ConcurrentCpeStrings : ValidateCpeStart(p, c)
  \/ \E p \in Procs : QueryNvdApi(p)
  \/ \E p \in Procs : TimerFire(p)
  \/ \E p \in Procs : Respond(p, ValidateReplies(KeyOf(p)))
  \/ \E p \in Procs : FailRequest(p)
  \/ \E p \in Procs : ValidateCpeReturn(p)
  \/ \E p \in Procs : ValidateCpeCatch(p)
  \/ \E d \in Delays : Tick(d)

SpecValidate == Init /\ [][NextValidate]_vars

\* =========================================================================
\* CPE ranking engine (cpeRankingEngine): deconstruction, scoring and ranking.
\* Here a string is the sequence of its characters, so that splitting,
\* substring tests and edit distances are computed as the code computes
\* them; null and the empty string are the empty sequence.  A sub-score is
\* a fraction <<numerator, denominator>>; the composite score is kept in
\* hundredths (94.25 is 9425), computed exactly: the code's double
\* arithmetic can differ from it only in the last rounded digit.
\* =========================================================================
MaxProducts == 2     \* length of the product lists handed to rankCpeCandidates

\* The words of the test script and of the catalog names built from them.
Txt ==
  [ ewon |-> <<"e", "w", "o", "n">>,
    firmware |-> <<"f", "i", "r", "m", "w", "a", "r", "e">>,
    ewon_firmware |-> <<"e", "w", "o", "n", "_", "f", "i", "r", "m", "w", "a", "r", "e">>,
    v10_0s0 |-> <<"1", "0", ".", "0", "s", "0">>,
    v10_0 |-> <<"1", "0", ".", "0">>,
    v9_5 |-> <<"9", ".", "5">>,
    apache |-> <<"a", "p", "a", "c", "h", "e">>,
    http_server |-> <<"h", "t", "t", "p", "_", "s", "e", "r", "v", "e", "r">>,
    v2_4_51 |-> <<"2", ".", "4", ".", "5", "1">>,
    cosy_131 |-> <<"c", "o", "s", "y", "_", "1", "3", "1">>,
    nginx |-> <<"n", "g", "i", "n", "x">>,
    v1_24_0 |-> <<"1", ".", "2", "4", ".", "0">>,
    wordpres |-> <<"w", "o", "r", "d", "p", "r", "e", "s">>,
    wordpress |-> <<"w", "o", "r", "d", "p", "r", "e", "s", "s">>,
    v6_4_2 |-> <<"6", ".", "4", ".", "2">>,
    openssl |-> <<"o", "p", "e", "n", "s", "s", "l">>,
    OpenSSL |-> <<"O", "p", "e", "n", "S", "S", "L">>,
    v1_1_1 |-> <<"1", ".", "1", ".", "1">>,
    v2019 |-> <<"2", "0", "1", "9">>,
    v2020 |-> <<"2", "0", "2", "0">>,
    vv10_0 |-> <<"v", "1", "0", ".", "0">>,
    cpe |-> <<"c", "p", "e">>,
    v2_3 |-> <<"2", ".", "3">>,
    f5 |-> <<"f", "5">>,
    cisco |-> <<"c", "i", "s", "c", "o">>,
    ios |-> <<"i", "o", "s">>,
    xe |-> <<"x", "e">>,
    ios_xe |-> <<"i", "o", "s", "_", "x", "e">>,
    iosxe |-> <<"i", "o", "s", " ", "x", "e">>,
    v17_3_1 |-> <<"1", "7", ".", "3", ".", "1">>,
    v17_3_2 |-> <<"1", "7", ".", "3", ".", "2">>,
    microsoft |-> <<"m", "i", "c", "r", "o", "s", "o", "f", "t">>,
    office |-> <<"o", "f", "f", "i", "c", "e">>,
    v2017 |-> <<"2", "0", "1", "7">>,
    v10_1 |-> <<"1", "0", ".", "1">>,
    v10_0S0 |-> <<"1", "0", ".", "0", "S", "0">>,
    Ewan |-> <<"E", "w", "a", "n">>,
    EWON |-> <<"E", "W", "O", "N">>,
    drupal |-> <<"d", "r", "u", "p", "a", "l">>,
    v10_0_0 |-> <<"1", "0", ".", "0", ".", "0">>,
    vv10_0s0 |-> <<"v", "1", "0", ".", "0", "s", "0">> ]

Star == <<"*">>

UpperCase == <<"A", "B", "C", "D", "E", "F", "G", "H", "I", "J", "K", "L", "M",
               "N", "O", "P", "Q", "R", "S", "T", "U", "V", "W", "X", "Y", "Z">>

LowerCase == <<"a", "b", "c", "d", "e", "f", "g", "h", "i", "j", "k", "l", "m",
               "n", "o", "p", "q", "r", "s", "t", "u", "v", "w", "x", "y", "z">>

Digits == <<"0", "1", "2", "3", "4", "5", "6", "7", "8", "9">>

\* The lower-case letter of every upper-case letter.
LowerOf ==
  [c \in {UpperCase[k] : k \in 1..Len(UpperCase)} |->
     LowerCase[CHOOSE k \in 1..Len(UpperCase) : UpperCase[k] = c]]

\* String.prototype.toLowerCase
ToLowerCase(s) ==
  [i \in 1..Len(s) |-> IF s[i] \in DOMAIN LowerOf THEN LowerOf[s[i]] ELSE s[i]]

\* s.replace(/[chars]/g, by)
ReplaceAll(s, chars, by) ==
  [i \in 1..Len(s) |-> IF s[i] \in chars THEN by ELSE s[i]]

\* s.split(sep): the fields between the separators, empty ones included.
RECURSIVE Split(_, _)
Split(s, sep) ==
  IF \A i \in 1..Len(s) : s[i] # sep THEN << s >>
  ELSE LET k == CHOOSE i \in 1..Len(s) :
                   s[i] = sep /\ \A j \in 1..(i - 1) : s[j] # sep
       IN << SubSeq(s, 1, k - 1) >> \o Split(SubSeq(s, k + 1, Len(s)), sep)

NonEmpty(t) == Len(t) > 0

\* s.split(' ').filter(t => t.length > 0)
Words(s) == SelectSeq(Split(s, " "), NonEmpty)

\* a.includes(b)
Includes(a, b) ==
  \E k \in 0..(Len(a) - Len(b)) : SubSeq(a, k + 1, k + Len(b)) = b

\* The elements of a sequence, as new Set(array) holds them.
SetOf(seq) == {seq[i] : i \in 1..Len(seq)}

Max(a, b) == IF a >= b THEN a ELSE b

\* One row of the dynamic-programming matrix of levenshteinDistance: row i
\* from row i - 1 (prev), for the character ch = a[i - 1]; acc holds the
\* cells dp[i][0..] computed so far.
RECURSIVE LevenshteinRow(_, _, _, _, _)
LevenshteinRow(prev, ch, b, i, acc) ==
  IF Len(acc) = Len(b) + 1 THEN acc
  ELSE LET j == Len(acc)
           cell == IF j = 0 THEN i
                   ELSE IF ch = b[j] THEN prev[j]
                   ELSE 1 + Min(prev[j + 1], Min(acc[j], prev[j]))
       IN LevenshteinRow(prev, ch, b, i, Append(acc, cell))

RECURSIVE LevenshteinRows(_, _, _, _)
LevenshteinRows(a, b, i, prev) ==
  IF i > Len(a) THEN prev[Len(b) + 1]
  ELSE LevenshteinRows(a, b, i + 1, LevenshteinRow(prev, a[i], b, i, << >>))

\* levenshteinDistance(a, b) = dp[m][n]
LevenshteinDistance(a, b) ==
  LevenshteinRows(a, b, 1, [j \in 1..(Len(b) + 1) |-> j - 1])

\* Mutant: the distance is divided by the length of the shorter string.
LevenshteinRatioByShorter(a, b) ==
  LET minLen == Min(Len(a), Len(b))
  IN IF Max(Len(a), Len(b)) = 0 THEN <<1, 1>>
     ELSE IF minLen = 0 THEN <<0, 1>>
     ELSE <<minLen - LevenshteinDistance(a, b), minLen>>

\* levenshteinRatio(a, b) = 1 - distance / maxLen
LevenshteinRatio(a, b) ==
  LET maxLen == Max(Len(a), Len(b))
  IN IF maxLen = 0 THEN <<1, 1>>
     ELSE <<maxLen - LevenshteinDistance(a, b), maxLen>>

\* jaccardSimilarity(setA, setB) = |intersection| / |union|
JaccardSimilarity(setA, setB) ==
  IF setA = {} /\ setB = {} THEN <<0, 1>>
  ELSE <<Cardinality(setA \cap setB), Cardinality(setA \cup setB)>>

\* x <= y for fractions with positive denominators.
FracLeq(x, y) == x[1] * y[2] <= y[1] * x[2]

\* Math.max on fractions.
FracMax(x, y) == IF FracLeq(x, y) THEN y ELSE x

\* ---------------------------------------------------------- deconstructCpe
\* parts[k - 1] || '*'
FieldOrStar(parts, k) ==
  IF Len(parts) >= k /\ Len(parts[k]) > 0 THEN parts[k] ELSE Star

\* attr.replace(/[seps]/g, ' ').split(' ').filter(t => t.length > 0), for
\* an attribute that is not the wildcard
AttributeTokens(attr, seps) ==
  IF attr = Star THEN << >> ELSE Words(ReplaceAll(attr, seps, " "))

DeconstructCpe(cpeName) ==
  LET parts == Split(cpeName, ":")
  IN IF Len(parts) < 5
     THEN [raw |-> cpeName, part |-> << >>, vendor |-> << >>, product |-> << >>,
           version |-> Star, update |-> Star, edition |-> Star, language |-> Star,
           swEdition |-> Star, targetSw |-> Star, targetHw |-> Star, other |-> Star,
           tokens |-> << >>]
     ELSE LET vendor == FieldOrStar(parts, 4)
              product == FieldOrStar(parts, 5)
              version == FieldOrStar(parts, 6)
              tokens == AttributeTokens(vendor, {"_", "-"})
                           \o AttributeTokens(product, {"_", "-"})
                           \o AttributeTokens(version, {".", "_", "-"})
          IN [raw |-> cpeName, part |-> parts[3], vendor |-> vendor,
              product |-> product, version |-> version,
              update |-> FieldOrStar(parts, 7), edition |-> FieldOrStar(parts, 8),
              language |-> FieldOrStar(parts, 9), swEdition |-> FieldOrStar(parts, 10),
              targetSw |-> FieldOrStar(parts, 11), targetHw |-> FieldOrStar(parts, 12),
              other |-> FieldOrStar(parts, 13),
              tokens |-> [i \in 1..Len(tokens) |-> ToLowerCase(tokens[i])]]

\* ----------------------------------------------------------------- scoring
\* Mutant: no check for an absent asset vendor; the empty string is a
\* substring of every vendor.
ScoreVendorNoNullCheck(assetVendor, cpeVendor) ==
  IF cpeVendor = Star THEN <<3, 10>>
  ELSE LET assetLower == ToLowerCase(assetVendor)
           cpeLower == ToLowerCase(cpeVendor)
       IN IF assetLower = cpeLower THEN <<10, 10>>
          ELSE IF Len(assetLower) = 0 \/ Includes(assetLower, cpeLower)
                  \/ Includes(cpeLower, assetLower)
               THEN <<7, 10>>
          ELSE IF LevenshteinDistance(assetLower, cpeLower) <= 2 THEN <<5, 10>>
          ELSE <<0, 10>>

\* Mutant: the Levenshtein check comes before the substring check.
ScoreVendorDistanceFirst(assetVendor, cpeVendor) ==
  IF Len(assetVendor) = 0 THEN <<0, 10>>
  ELSE IF cpeVendor = Star THEN <<3, 10>>
  ELSE LET assetLower == ToLowerCase(assetVendor)
           cpeLower == ToLowerCase(cpeVendor)
       IN IF assetLower = cpeLower THEN <<10, 10>>
          ELSE IF LevenshteinDistance(assetLower, cpeLower) <= 2 THEN <<5, 10>>
          ELSE IF Includes(assetLower, cpeLower) \/ Includes(cpeLower, assetLower)
               THEN <<7, 10>>
          ELSE <<0, 10>>

\* scoreVendor(assetVendor, cpeVendor); a null vendor is the empty string.
ScoreVendor(assetVendor, cpeVendor) ==
  IF Len(assetVendor) = 0 THEN <<0, 10>>
  ELSE IF cpeVendor = Star THEN <<3, 10>>
  ELSE LET assetLower == ToLowerCase(assetVendor)
           cpeLower == ToLowerCase(cpeVendor)
       IN IF assetLower = cpeLower THEN <<10, 10>>
          ELSE IF Includes(assetLower, cpeLower) \/ Includes(cpeLower, assetLower)
               THEN <<7, 10>>
          ELSE IF LevenshteinDistance(assetLower, cpeLower) <= 2 THEN <<5, 10>>
          ELSE <<0, 10>>

\* tokenize(text)
Tokenize(text) == Words(ReplaceAll(ToLowerCase(text), {"_", "-"}, " "))

\* Mutant: the two methods are added instead of taking the larger.
ScoreProductAddsMethods(assetProduct, cpeProduct) ==
  IF Len(assetProduct) = 0 THEN <<0, 10>>
  ELSE IF cpeProduct = Star THEN <<2, 10>>
  ELSE LET jaccardScore == JaccardSimilarity(SetOf(Tokenize(assetProduct)),
                                             SetOf(Tokenize(cpeProduct)))
           assetLower == ToLowerCase(assetProduct)
           cpeLower == ReplaceAll(ToLowerCase(cpeProduct), {"_"}, " ")
           levRatio == LevenshteinRatio(assetLower, cpeLower)
       IN <<jaccardScore[1] * levRatio[2] + levRatio[1] * jaccardScore[2],
            jaccardScore[2] * levRatio[2]>>

ScoreProduct(assetProduct, cpeProduct) ==
  IF Len(assetProduct) = 0 THEN <<0, 10>>
  ELSE IF cpeProduct = Star THEN <<2, 10>>
  ELSE LET jaccardScore == JaccardSimilarity(SetOf(Tokenize(assetProduct)),
                                             SetOf(Tokenize(cpeProduct)))
           assetLower == ToLowerCase(assetProduct)
           cpeLower == ReplaceAll(ToLowerCase(cpeProduct), {"_"}, " ")
           levRatio == LevenshteinRatio(assetLower, cpeLower)
       IN FracMax(jaccardScore, levRatio)

IsDigit(c) == \E k \in 1..Len(Digits) : Digits[k] = c

\* The number of leading digits of s: the length of the group (\d*) of
\* /^(\d*)(.*)$/.
DigitPrefix(s) ==
  Cardinality({i \in 1..Len(s) : \A j \in 1..i : IsDigit(s[j])})

\* Mutant: the fields are the dot-separated parts as they stand, without a
\* separate suffix.
ParseVersionDotsOnly(version) ==
  LET cleaned == IF Len(version) > 0 /\ version[1] \in {"v", "V"}
                 THEN SubSeq(version, 2, Len(version)) ELSE version
      parts == Split(cleaned, ".")
  IN [major |-> parts[1],
      minor |-> IF Len(parts) >= 2 THEN parts[2] ELSE << >>,
      patch |-> IF Len(parts) >= 3 THEN parts[3] ELSE << >>,
      suffix |-> << >>]

ParseVersion(version) ==
  LET cleaned == IF Len(version) > 0 /\ version[1] \in {"v", "V"}
                 THEN SubSeq(version, 2, Len(version)) ELSE version
      parts == Split(cleaned, ".")
      last == IF Len(parts) >= 3 THEN parts[3]
              ELSE IF Len(parts) = 2 THEN parts[2] ELSE << >>
      digits == SubSeq(last, 1, DigitPrefix(last))
      rest == SubSeq(last, DigitPrefix(last) + 1, Len(last))
  IN [major |-> parts[1],
      minor |-> IF Len(parts) >= 3 THEN parts[2]
                ELSE IF Len(parts) = 2 THEN digits ELSE << >>,
      patch |-> IF Len(parts) >= 3
                THEN (IF Len(digits) > 0 THEN digits ELSE parts[3])
                ELSE << >>,
      suffix |-> rest]

\* /^\d{4}$/.test(s)
IsYear(s) == Len(s) = 4 /\ \A i \in 1..Len(s) : IsDigit(s[i])

\* parseInt(s) on a string of digits
RECURSIVE ParseInt(_)
ParseInt(s) ==
  IF Len(s) = 0 THEN 0
  ELSE 10 * ParseInt(SubSeq(s, 1, Len(s) - 1))
       + (CHOOSE k \in 1..Len(Digits) : Digits[k] = s[Len(s)]) - 1

\* Mutant: the 0.95 rule does not compare the patch fields.
ScoreVersionIgnoresPatch(assetVersion, cpeVersion) ==
  IF Len(assetVersion) = 0 THEN <<3, 10>>
  ELSE IF cpeVersion = Star THEN <<3, 10>>
  ELSE LET assetLower == ToLowerCase(assetVersion)
           cpeLower == ToLowerCase(cpeVersion)
           assetParsed == ParseVersion(assetLower)
           cpeParsed == ParseVersion(cpeLower)
       IN IF assetLower = cpeLower THEN <<100, 100>>
          ELSE IF /\ assetParsed.major = cpeParsed.major
                  /\ assetParsed.minor = cpeParsed.minor THEN <<95, 100>>
          ELSE IF /\ assetParsed.major = cpeParsed.major
                  /\ assetParsed.minor = cpeParsed.minor THEN <<80, 100>>
          ELSE IF assetParsed.major = cpeParsed.major THEN <<50, 100>>
          ELSE IF /\ IsYear(assetLower) /\ IsYear(cpeLower)
                  /\ ParseInt(assetLower) - ParseInt(cpeLower) <= 1
                  /\ ParseInt(cpeLower) - ParseInt(assetLower) <= 1 THEN <<60, 100>>
          ELSE <<0, 100>>

\* scoreVersion(assetVersion, cpeVersion); a null version is the empty string.
ScoreVersion(assetVersion, cpeVersion) ==
  IF Len(assetVersion) = 0 THEN <<3, 10>>
  ELSE IF cpeVersion = Star THEN <<3, 10>>
  ELSE LET assetLower == ToLowerCase(assetVersion)
           cpeLower == ToLowerCase(cpeVersion)
           assetParsed == ParseVersion(assetLower)
           cpeParsed == ParseVersion(cpeLower)
       IN IF assetLower = cpeLower THEN <<100, 100>>
          ELSE IF /\ assetParsed.major = cpeParsed.major
                  /\ assetParsed.minor = cpeParsed.minor
                  /\ assetParsed.patch = cpeParsed.patch THEN <<95, 100>>
          ELSE IF /\ assetParsed.major = cpeParsed.major
                  /\ assetParsed.minor = cpeParsed.minor THEN <<80, 100>>
          ELSE IF assetParsed.major = cpeParsed.major THEN <<50, 100>>
          ELSE IF /\ IsYear(assetLower) /\ IsYear(cpeLower)
                  /\ ParseInt(assetLower) - ParseInt(cpeLower) <= 1
                  /\ ParseInt(cpeLower) - ParseInt(assetLower) <= 1 THEN <<60, 100>>
          ELSE <<0, 100>>

ScoreTokenOverlap(assetTokens, cpeTokens) ==
  JaccardSimilarity({ToLowerCase(t) : t \in SetOf(assetTokens)},
                    {ToLowerCase(t) : t \in SetOf(cpeTokens)})

\* Mutant: the token overlap weighs more than the version.
WEIGHTS_TokenHeavy == [VENDOR |-> 20, PRODUCT |-> 30, VERSION |-> 20, TOKEN_OVERLAP |-> 30]

\* The weights, in hundredths.
WEIGHTS == [VENDOR |-> 25, PRODUCT |-> 35, VERSION |-> 25, TOKEN_OVERLAP |-> 15]

\* Math.round(weightedScore * 100 * 100) / 100, in hundredths: the weighted
\* sum n / d of the four fractions, times 100, rounded half up.
CalculateFinalScore(breakdown) ==
  LET v == breakdown.vendorScore
      q == breakdown.productScore
      r == breakdown.versionScore
      t == breakdown.tokenOverlapScore
      d == v[2] * q[2] * r[2] * t[2]
      n == 100 * ( WEIGHTS.VENDOR * v[1] * q[2] * r[2] * t[2]
                 + WEIGHTS.PRODUCT * q[1] * v[2] * r[2] * t[2]
                 + WEIGHTS.VERSION * r[1] * v[2] * q[2] * t[2]
                 + WEIGHTS.TOKEN_OVERLAP * t[1] * v[2] * q[2] * r[2] )
  IN (2 * n + d) \div (2 * d)

\* scoreCpeCandidate for a product that carries a cpeName (the title, which
\* no score depends on, is left out).
ScoreCpeCandidate(parsedAsset, cpeProduct) ==
  LET deconstructed == DeconstructCpe(cpeProduct.cpeName)
      breakdown ==
        [vendorScore |-> ScoreVendor(parsedAsset.vendor, deconstructed.vendor),
         productScore |-> ScoreProduct(parsedAsset.product, deconstructed.product),
         versionScore |-> ScoreVersion(parsedAsset.version, deconstructed.version),
         tokenOverlapScore |-> ScoreTokenOverlap(parsedAsset.tokens, deconstructed.tokens)]
  IN [cpeName |-> cpeProduct.cpeName, cpeNameId |-> cpeProduct.cpeNameId,
      score |-> CalculateFinalScore(breakdown), breakdown |-> breakdown,
      deconstructed |-> deconstructed]

\* ----------------------------------------------------------------- ranking
\* Mutant: the comparator orders by ascending score.
ByScoreAscending(a, b) == a.score - b.score

\* The comparator (a, b) => b.score - a.score.
ByScoreDescending(a, b) == b.score - a.score

\* Array.prototype.sort is stable: an element goes after the elements the
\* comparator does not place behind it.
InsertSorted(sorted, c) ==
  LET k == Cardinality({i \in 1..Len(sorted) : ByScoreDescending(sorted[i], c) <= 0})
  IN SubSeq(sorted, 1, k) \o << c >> \o SubSeq(sorted, k + 1, Len(sorted))

RECURSIVE SortCandidates(_)
SortCandidates(candidates) ==
  IF Len(candidates) = 0 THEN << >>
  ELSE InsertSorted(SortCandidates(SubSeq(candidates, 1, Len(candidates) - 1)),
                    candidates[Len(candidates)])

\* Mutant: the list is sorted and returned whole.
RankCandidatesUncut(candidates, topN) == SortCandidates(candidates)

\* rankCandidates: [...candidates].sort(...).slice(0, topN)
RankCandidates(candidates, topN) ==
  SubSeq(SortCandidates(candidates), 1, Min(topN, Len(candidates)))

\* -------------------------------------------------------- rankCpeCandidates
\* The name "cpe:2.3:<part>:<vendor>:<product>:<version>:*:*:*:*:*:*:*".
JoinColon(fields) ==
  LET RECURSIVE Join(_)
      Join(k) == IF k = 0 THEN << >>
                 ELSE IF k = 1 THEN fields[1]
                 ELSE Join(k - 1) \o <<":">> \o fields[k]
  IN Join(Len(fields))

Cpe23(part, vendor, product, version) ==
  JoinColon(<<Txt.cpe, Txt.v2_3, part, vendor, product, version,
              Star, Star, Star, Star, Star, Star, Star>>)

CpeProduct(id, cpeName) == [cpeNameId |-> id, cpeName |-> cpeName]

\* Catalog records: the entries of the test script, an entry that ties with
\* the first, one with another minor version, two with a year as version, an
\* all-wildcard name, a name with too few fields and a record without
\* cpeName.
Catalog ==
  [EwonFirmware10s  |-> CpeProduct("abc123", Cpe23(<<"o">>, Txt.ewon, Txt.ewon_firmware, Txt.v10_0s0)),
   EwonFirmware10   |-> CpeProduct("abc124", Cpe23(<<"o">>, Txt.ewon, Txt.ewon_firmware, Txt.v10_0)),
   EwonFirmware9    |-> CpeProduct("abc125", Cpe23(<<"o">>, Txt.ewon, Txt.ewon_firmware, Txt.v9_5)),
   ApacheHttpServer |-> CpeProduct("def456", Cpe23(<<"a">>, Txt.apache, Txt.http_server, Txt.v2_4_51)),
   EwonCosy         |-> CpeProduct("ghi789", Cpe23(<<"h">>, Txt.ewon, Txt.cosy_131, Star)),
   EwonFirmwareHw   |-> CpeProduct("abc126", Cpe23(<<"h">>, Txt.ewon, Txt.ewon_firmware, Txt.v10_0s0)),
   Wordpress        |-> CpeProduct("wp001", Cpe23(<<"a">>, Txt.wordpress, Txt.wordpress, Txt.v6_4_2)),
   Nginx            |-> CpeProduct("nginx001", Cpe23(<<"a">>, Txt.nginx, Txt.nginx, Txt.v1_24_0)),
   NginxF5          |-> CpeProduct("nginx002", Cpe23(<<"a">>, Txt.f5, Txt.nginx, Txt.v1_24_0)),
   EwonFirmware10_1 |-> CpeProduct("abc127", Cpe23(<<"o">>, Txt.ewon, Txt.ewon_firmware, Txt.v10_1)),
   Office2020       |-> CpeProduct("off2020", Cpe23(<<"a">>, Txt.microsoft, Txt.office, Txt.v2020)),
   Office2017       |-> CpeProduct("off2017", Cpe23(<<"a">>, Txt.microsoft, Txt.office, Txt.v2017)),
   CiscoIosXe1      |-> CpeProduct("cisco001", Cpe23(<<"a">>, Txt.cisco, Txt.ios_xe, Txt.v17_3_1)),
   CiscoIosXeAny    |-> CpeProduct("cisco002", Cpe23(<<"a">>, Txt.cisco, Txt.ios_xe, Star)),
   CiscoIosXe2      |-> CpeProduct("cisco003", Cpe23(<<"a">>, Txt.cisco, Txt.ios_xe, Txt.v17_3_2)),
   Drupal           |-> CpeProduct("drupal001", Cpe23(<<"a">>, Txt.drupal, Txt.drupal, Txt.v10_0_0)),
   AllWildcards     |-> CpeProduct("any", Cpe23(<<"a">>, Star, Star, Star)),
   TooFewFields     |-> CpeProduct("short", JoinColon(<<Txt.cpe, Txt.v2_3, <<"a">>, Txt.ewon>>)),
   NoCpeName        |-> CpeProduct("none", << >>)]

\* The assets and product lists of tests 1, 5, 7 and 8 of the test script: the
\* fields the engine reads (a null vendor is the empty string).
TestScript ==
  [testAsset        |-> [vendor |-> Txt.ewon, product |-> Txt.firmware,
                         version |-> Txt.v10_0s0,
                         tokens |-> <<Txt.ewon, Txt.firmware>>],
   testCpeProducts  |-> << Catalog.EwonFirmware10s, Catalog.EwonFirmware10,
                           Catalog.EwonFirmware9, Catalog.ApacheHttpServer,
                           Catalog.EwonCosy >>,
   noVendorAsset    |-> [vendor |-> << >>, product |-> Txt.nginx,
                         version |-> Txt.v1_24_0, tokens |-> <<Txt.nginx>>],
   nginxCpeProducts |-> << Catalog.Nginx, Catalog.NginxF5 >>,
   typoAsset        |-> [vendor |-> Txt.wordpres, product |-> Txt.wordpres,
                         version |-> Txt.v6_4_2, tokens |-> <<Txt.wordpres>>],
   typoCpeProducts  |-> << Catalog.Wordpress, Catalog.Drupal >>,
   wildcardCpeProducts |-> << Catalog.CiscoIosXe1, Catalog.CiscoIosXeAny,
                              Catalog.CiscoIosXe2 >>,
   ciscoAsset       |-> [vendor |-> Txt.cisco, product |-> Txt.iosxe,
                         version |-> Txt.v17_3_1,
                         tokens |-> <<Txt.cisco, Txt.ios, Txt.xe>>]]

RankProducts ==
  { Catalog.EwonFirmware10s, Catalog.EwonFirmwareHw, Catalog.EwonCosy, Catalog.Nginx, Catalog.Wordpress,
    Catalog.AllWildcards, Catalog.TooFewFields, Catalog.NoCpeName }

\* The product lists: every list without repetition of at most MaxProducts
\* records of RankProducts, and the lists of the test script.
RECURSIVE ListsUpTo(_)
ListsUpTo(n) ==
  IF n = 0 THEN { << >> }
  ELSE ListsUpTo(n - 1) \cup
       { Append(l, c) : l \in {m \in ListsUpTo(n - 1) : Len(m) = n - 1},
                        c \in RankProducts }

ProductLists ==
  { l \in ListsUpTo(MaxProducts) : \A i, j \in 1..Len(l) : i # j => l[i] # l[j] }
  \cup { TestScript.testCpeProducts, TestScript.nginxCpeProducts,
         TestScript.typoCpeProducts, TestScript.wildcardCpeProducts,
         << Catalog.ApacheHttpServer, Catalog.EwonFirmware10s, Catalog.EwonFirmwareHw >>,
         << Catalog.Office2017, Catalog.EwonFirmware10_1, Catalog.Office2020 >> }

\* ParsedAsset values of the test script, one that a catalog name matches
\* in every attribute and token, two whose vendor is in capitals, one of
\* them misspelt, one whose version is a year, and one whose tokens hold the
\* parts of its version: the fields the engine reads.
RankAssets ==
  { TestScript.testAsset, TestScript.noVendorAsset, TestScript.typoAsset,
    TestScript.ciscoAsset,
    [TestScript.ciscoAsset EXCEPT
       !.tokens = <<Txt.cisco, Txt.ios, Txt.xe, <<"1", "7">>, <<"3">>, <<"1">>>>],
    [vendor |-> Txt.EWON, product |-> Txt.firmware, version |-> Txt.v10_0S0,
     tokens |-> <<Txt.ewon, Txt.firmware>>],
    [vendor |-> Txt.microsoft, product |-> Txt.office, version |-> Txt.v2019,
     tokens |-> <<Txt.microsoft, Txt.office>>],
    [vendor |-> Txt.Ewan, product |-> Txt.firmware, version |-> Txt.v9_5,
     tokens |-> <<Txt.firmware>>],
    [vendor |-> Txt.ewon, product |-> Txt.firmware, version |-> Txt.vv10_0s0,
     tokens |-> <<Txt.ewon, Txt.firmware>>],
    [vendor |-> Txt.openssl, product |-> Txt.openssl, version |-> << >>,
     tokens |-> <<Txt.openssl>>],
    [vendor |-> Txt.nginx, product |-> Txt.nginx, version |-> Txt.v1_24_0,
     tokens |-> <<Txt.nginx, <<"1">>, <<"2", "4">>, <<"0">>>>] }

\* topN arguments: below, at and above the lengths of the lists.
RankTopNs == {1, 2, DEFAULT_TOP_N}

\* A direct call rankCpeCandidates(parsedAsset, cpeProducts, topN), as the
\* handler and the test script make it, before its loop starts.
RankCall(parsedAsset, cpeProducts, topN) ==
  [kind |-> "rank", pc |-> "scoring", parsedAsset |-> parsedAsset,
   cpeProducts |-> cpeProducts, topN |-> topN, scored |-> 0,
   candidates |-> << >>, ranked |-> << >>]

InitRank ==
  /\ clock = StartTime
  /\ ticks = 0
  /\ lastRequestTime = 0
  /\ cache = << >>
  /\ requests = << >>
  /\ arrivals = 0
  /\ active = SearchProcs
  /\ proc \in [SearchProcs ->
        { RankCall(a, l, n) : a \in RankAssets, l \in ProductLists, n \in RankTopNs }]

\* Lines 1364-1369: one iteration of the scoring loop.
RankScoreNext(p) ==
  /\ proc[p].kind = "rank"
  /\ proc[p].pc = "scoring"
  /\ proc[p].scored < Len(proc[p].cpeProducts)
  /\ LET f == proc[p]
         cpeProduct == f.cpeProducts[f.scored + 1]
     IN proc' = [proc EXCEPT ![p].scored = f.scored + 1,
                             ![p].candidates =
                                IF HasCpeName(cpeProduct)
                                THEN Append(f.candidates,
                                            ScoreCpeCandidate(f.parsedAsset, cpeProduct))
                                ELSE f.candidates]
  /\ UNCHANGED <<clock, ticks, lastRequestTime, cache, requests, arrivals, active>>

\* Lines 1371-1376: the loop is over; rank and return the top N.
RankReturn(p) ==
  /\ proc[p].kind = "rank"
  /\ proc[p].pc = "scoring"
  /\ proc[p].scored = Len(proc[p].cpeProducts)
  /\ proc' = [proc EXCEPT ![p].pc = "done",
                          ![p].ranked = RankCandidates(proc[p].candidates, proc[p].topN)]
  /\ UNCHANGED <<clock, ticks, lastRequestTime, cache, requests, arrivals, active>>

NextRank ==
  \/ \E p \in SearchProcs : RankScoreNext(p)
  \/ \E p \in SearchProcs : RankReturn(p)

\* rankCpeCandidates on every asset, product list and topN of the sets above.
SpecRank == InitRank /\ [][NextRank]_vars

\* The calls of rankCpeCandidates.
Ranks == {p \in SearchProcs : proc[p].kind = "rank"}

\* =========================================================================
\* Cpe.parseAsset on character strings: version extraction, normalisation,
\* tokens, vendor and product.  Whitespace is the space character.
\* =========================================================================
MaxWords == 3        \* number of words in a raw asset name

KNOWN_VENDORS ==
  { <<"m", "i", "c", "r", "o", "s", "o", "f", "t">>,
    <<"a", "p", "p", "l", "e">>,
    <<"g", "o", "o", "g", "l", "e">>,
    <<"a", "p", "a", "c", "h", "e">>,
    <<"o", "r", "a", "c", "l", "e">>,
    <<"i", "b", "m">>,
    <<"c", "i", "s", "c", "o">>,
    <<"a", "d", "o", "b", "e">>,
    <<"m", "o", "z", "i", "l", "l", "a">>,
    <<"l", "i", "n", "u", "x">>,
    <<"c", "a", "n", "o", "n", "i", "c", "a", "l">>,
    <<"r", "e", "d", "h", "a", "t">>,
    <<"d", "e", "b", "i", "a", "n">>,
    <<"u", "b", "u", "n", "t", "u">>,
    <<"o", "p", "e", "n", "s", "s", "l">>,
    <<"o", "p", "e", "n", "s", "s", "h">>,
    <<"n", "g", "i", "n", "x">>,
    <<"p", "h", "p">>,
    <<"p", "y", "t", "h", "o", "n">>,
    <<"n", "o", "d", "e", "j", "s">>,
    <<"j", "a", "v", "a">>,
    <<"w", "o", "r", "d", "p", "r", "e", "s", "s">>,
    <<"d", "r", "u", "p", "a", "l">>,
    <<"j", "o", "o", "m", "l", "a">>,
    <<"m", "a", "g", "e", "n", "t", "o">>,
    <<"p", "r", "e", "s", "t", "a", "s", "h", "o", "p">>,
    <<"s", "a", "m", "s", "u", "n", "g">>,
    <<"h", "u", "a", "w", "e", "i">>,
    <<"d", "e", "l", "l">>,
    <<"h", "p">>,
    <<"l", "e", "n", "o", "v", "o">>,
    <<"a", "s", "u", "s">>,
    <<"a", "c", "e", "r">>,
    <<"v", "m", "w", "a", "r", "e">>,
    <<"c", "i", "t", "r", "i", "x">>,
    <<"f", "o", "r", "t", "i", "n", "e", "t">>,
    <<"p", "a", "l", "o", "a", "l", "t", "o">>,
    <<"c", "h", "e", "c", "k", "p", "o", "i", "n", "t">>,
    <<"e", "w", "o", "n">>,
    <<"h", "m", "s">>,
    <<"s", "i", "e", "m", "e", "n", "s">>,
    <<"s", "c", "h", "n", "e", "i", "d", "e", "r">>,
    <<"r", "o", "c", "k", "w", "e", "l", "l">>,
    <<"h", "o", "n", "e", "y", "w", "e", "l", "l">> }

NON_VENDOR_WORDS ==
  { <<"s", "e", "r", "v", "e", "r">>,
    <<"c", "l", "i", "e", "n", "t">>,
    <<"f", "i", "r", "m", "w", "a", "r", "e">>,
    <<"s", "o", "f", "t", "w", "a", "r", "e">>,
    <<"h", "a", "r", "d", "w", "a", "r", "e">>,
    <<"d", "r", "i", "v", "e", "r">>,
    <<"h", "t", "t", "p">>,
    <<"h", "t", "t", "p", "s">>,
    <<"f", "t", "p">>,
    <<"s", "s", "h">>,
    <<"s", "s", "l">>,
    <<"t", "l", "s">>,
    <<"t", "c", "p">>,
    <<"u", "d", "p">>,
    <<"w", "e", "b">>,
    <<"m", "a", "i", "l">>,
    <<"d", "n", "s">>,
    <<"p", "r", "o", "x", "y">>,
    <<"g", "a", "t", "e", "w", "a", "y">>,
    <<"f", "i", "r", "e", "w", "a", "l", "l">>,
    <<"r", "o", "u", "t", "e", "r">>,
    <<"t", "h", "e">>,
    <<"f", "o", "r">>,
    <<"a", "n", "d">>,
    <<"w", "i", "t", "h">>,
    <<"p", "r", "o">>,
    <<"e", "n", "t", "e", "r", "p", "r", "i", "s", "e">>,
    <<"p", "r", "o", "f", "e", "s", "s", "i", "o", "n", "a", "l">>,
    <<"s", "t", "a", "n", "d", "a", "r", "d">>,
    <<"e", "d", "i", "t", "i", "o", "n">>,
    <<"v", "e", "r", "s", "i", "o", "n">>,
    <<"u", "p", "d", "a", "t", "e">>,
    <<"p", "a", "t", "c", "h">>,
    <<"r", "e", "l", "e", "a", "s", "e">> }

\* s[i], or "" outside the string.
At(s, i) == IF i \in 1..Len(s) THEN s[i] ELSE ""

\* [a-z] under the i flag
IsLetter(c) == c \in DOMAIN LowerOf \/ \E k \in 1..Len(LowerCase) : LowerCase[k] = c

\* \w
IsWordChar(c) == IsLetter(c) \/ IsDigit(c) \/ c = "_"

\* \b before s[i] (i = Len(s) + 1: at the end)
Boundary(s, i) == IsWordChar(At(s, i - 1)) # IsWordChar(At(s, i))

\* The length of the run of digits that starts at s[i]: what \d+ and \d*
\* take there.  A shorter run is never part of a match of the patterns
\* below, since each is followed by '.', a letter or \b, none of which
\* matches before a digit.
DigitRun(s, i) == DigitPrefix(SubSeq(s, i, Len(s)))

\* The element of a one-element set.  { F(x) : x \in {e} } computes e once,
\* however often F uses x.
The(S) == CHOOSE x \in S : TRUE

\* \d+(\.\d+){n-1} at s[i]: the index after it, or 0 without a match.
RECURSIVE DottedEnd(_, _, _)
DottedEnd(s, i, n) ==
  The({ IF run = 0 THEN 0
        ELSE IF n = 1 THEN i + run
        ELSE IF At(s, i + run) = "." THEN DottedEnd(s, i + run + 1, n - 1)
        ELSE 0 : run \in {DigitRun(s, i)} })

\* The match of version pattern k (1..3) that starts at s[i]; to = 0 without
\* a match.  at: index of match[0]; from: index of match[1]; to: index after
\* both.  The alternatives of a pattern are tried in the order of the regex
\* engine, optional groups taken first, and the first that has \b behind
\* it is the match.
\*   line 116  \bv?(\d+\.\d+\.\d+(?:\.\d+)?(?:[a-z]\d*)?)\b   /i
\*   line 117  \bv?(\d+\.\d+(?:[a-z]\d*)?)\b                   /i
\*   line 118  \b(v\d+(?:\.\d+)*)\b                            /i
VersionMatchAt(s, i, k) ==
  LET v == At(s, i) \in {"v", "V"}
      d == IF v THEN i + 1 ELSE i
      \* (?:\.\d+)? at index e: the index after the group, 0 when absent
      DotGroupEnd(e) ==
        IF e > 0 /\ At(s, e) = "." /\ DigitRun(s, e + 1) > 0
        THEN e + 1 + DigitRun(s, e + 1) ELSE 0
      \* (?:[a-z]\d*)? at index e: the index after the group, 0 when absent
      LetterGroupEnd(e) ==
        IF e > 0 /\ IsLetter(At(s, e)) THEN e + 1 + DigitRun(s, e + 1) ELSE 0
      Ok(t) == {n \in 1..Len(t) : t[n] > 0 /\ Boundary(s, t[n])}
      FirstEnd(ends) ==
        The({ IF ok = {} THEN 0 ELSE t[CHOOSE n \in ok : \A j \in ok : n <= j]
              : <<t, ok>> \in { <<x, Ok(x)>> : x \in {ends} } })
      End(e3, e2) ==
           IF ~Boundary(s, i) THEN 0
           ELSE IF k = 1
                THEN FirstEnd(<< LetterGroupEnd(DotGroupEnd(e3)), DotGroupEnd(e3),
                                 LetterGroupEnd(e3), e3 >>)
           ELSE IF k = 2 THEN FirstEnd(<< LetterGroupEnd(e2), e2 >>)
           ELSE IF v
                THEN \* the longest chain of groups first, then one less at a time
                     FirstEnd([n \in 1..Len(s) |-> DottedEnd(s, d, Len(s) + 1 - n)])
           ELSE 0
  IN The({ [at |-> i, from |-> IF k = 3 THEN i ELSE d, to |-> End(e3, e2)]
           : e3 \in {DottedEnd(s, d, 3)}, e2 \in {DottedEnd(s, d, 2)} })

\* text.match(pattern): the leftmost match.
VersionMatch(s, k) ==
  The({ IF starts = {} THEN [at |-> 0, from |-> 0, to |-> 0]
        ELSE VersionMatchAt(s, CHOOSE i \in starts : \A j \in starts : i <= j, k)
        : starts \in { {i \in 1..Len(s) : VersionMatchAt(s, i, k).to > 0} } })

\* s.replace(sub, by) with a string pattern: the first occurrence of sub.
ReplaceFirst(s, sub, by) ==
  LET hits == {k \in 0..(Len(s) - Len(sub)) : SubSeq(s, k + 1, k + Len(sub)) = sub}
      k == CHOOSE h \in hits : \A j \in hits : h <= j
  IN IF hits = {} THEN s
     ELSE SubSeq(s, 1, k) \o by \o SubSeq(s, k + Len(sub) + 1, Len(s))

\* s.replace(/\s+/g, ' ')
CollapseSpaces(s) ==
  LET keep == {i \in 1..Len(s) : ~(s[i] = " " /\ At(s, i - 1) = " ")}
      Nth(n) == CHOOSE i \in keep : Cardinality({j \in keep : j <= i}) = n
  IN [n \in 1..Cardinality(keep) |-> s[Nth(n)]]

\* s.trim()
Trim(s) ==
  LET ink == {i \in 1..Len(s) : s[i] # " "}
  IN IF ink = {} THEN << >>
     ELSE SubSeq(s, CHOOSE i \in ink : \A j \in ink : i <= j,
                    CHOOSE i \in ink : \A j \in ink : i >= j)

\* Lines 113-131
ExtractVersionFromRaw(text) ==
  LET Matched(ms) == {k \in 1..3 : ms[k].to > 0}
      Result(m) ==
        LET group == SubSeq(text, m.from, m.to - 1)
        IN [version |-> IF group[1] \in {"v", "V"} THEN Tail(group) ELSE group,
            textWithoutVersion |->
               The({ Trim(collapsed)
                     : collapsed \in { CollapseSpaces(replaced)
                         : replaced \in { ReplaceFirst(text, whole, << " " >>)
                             : whole \in {SubSeq(text, m.at, m.to - 1)} } } })]
  IN The({ IF hits = {} THEN [version |-> << >>, textWithoutVersion |-> text]
           ELSE The({ Result(m)
                      : m \in {ms[CHOOSE k \in hits : \A j \in hits : k <= j]} })
           : <<ms, hits>> \in { <<x, Matched(x)>>
               : x \in { << VersionMatch(text, 1), VersionMatch(text, 2),
                            VersionMatch(text, 3) >> } } })

\* Lines 87-109: trim, lower case, separators to spaces ('.' too unless
\* versions are preserved), drop what is neither \w, space (nor '.'),
\* collapse the spaces.
NormalizedText(text, preserveVersions) ==
  LET seps == IF preserveVersions THEN {"_", "-"} ELSE {"_", "-", "."}
      Kept(c) == IsWordChar(c) \/ c = " " \/ (preserveVersions /\ c = ".")
  IN The({ CollapseSpaces(kept)
           : kept \in { SelectSeq(spaced, Kept)
               : spaced \in { ReplaceAll(lower, seps, " ")
                   : lower \in { ToLowerCase(trimmed)
                       : trimmed \in {Trim(text)} } } } })

\* Lines 140-172: a token is a candidate when one of the patterns matches
\* it.  Tokens hold only letters and digits (NormalizedText), so of the nine
\* patterns only /^\d{4}$/, /^\d+$/ and /^\d+[a-z]$/i, which need no '.',
\* '-' or '_', can match.
IsVersionCandidate(token) ==
  \/ IsYear(token)
  \/ (Len(token) > 0 /\ DigitRun(token, 1) = Len(token))
  \/ (Len(token) > 1 /\ DigitRun(token, 1) = Len(token) - 1 /\ IsLetter(token[Len(token)]))

VersionCandidatesExtractor(tokens) == SelectSeq(tokens, IsVersionCandidate)

\* token.replace(/(inc|corp|ltd|llc|gmbh|co)$/i, '').trim(): none of the
\* six is a suffix of another, so at most one matches.
StripSuffix(token) ==
  LET suffixes == { <<"i", "n", "c">>, <<"c", "o", "r", "p">>, <<"l", "t", "d">>,
                    <<"l", "l", "c">>, <<"g", "m", "b", "h">>, <<"c", "o">> }
      found == {x \in suffixes : Len(x) <= Len(token)
                   /\ ToLowerCase(SubSeq(token, Len(token) - Len(x) + 1, Len(token))) = x}
  IN IF found = {} THEN token
     ELSE SubSeq(token, 1, Len(token) - Len(CHOOSE x \in found : TRUE))

\* The first element of a sequence that satisfies Test, or << >>.
FirstWhere(seq, Test(_)) ==
  LET picked == SelectSeq(seq, Test) IN IF picked = << >> THEN << >> ELSE picked[1]

\* Lines 174-197
VendorExtractor(tokens) ==
  LET cleaned == [i \in 1..Len(tokens) |-> StripSuffix(tokens[i])]
      Known(t) == t \in KNOWN_VENDORS
      Likely(t) == Len(t) > 1 /\ t \notin NON_VENDOR_WORDS
  IN IF Len(tokens) = 0 THEN << >>
     ELSE IF SelectSeq(cleaned, Known) # << >> THEN FirstWhere(cleaned, Known)
     ELSE IF SelectSeq(cleaned, Likely) # << >> THEN FirstWhere(cleaned, Likely)
     ELSE cleaned[1]

\* Lines 199-231
ProductExtractor(tokens, vendor) ==
  LET NotVendor(t) == t # vendor
      productTokens == IF vendor # << >> THEN SelectSeq(tokens, NotVendor) ELSE tokens
      Meaningful(t) == t \notin NON_VENDOR_WORDS /\ Len(t) > 1
      Kept(t) == t \notin NON_VENDOR_WORDS \/ Len(productTokens) <= 2
      meaningfulTokens == SelectSeq(productTokens, Kept)
      joined == IF Len(meaningfulTokens) = 0 THEN << >>
                ELSE IF Len(meaningfulTokens) = 1 THEN meaningfulTokens[1]
                ELSE meaningfulTokens[1] \o << " " >> \o meaningfulTokens[2]
  IN IF Len(tokens) = 0 THEN << >>
     ELSE IF Len(productTokens) = 0 THEN vendor
     ELSE IF productTokens[1] \in KNOWN_VENDORS THEN productTokens[1]
     ELSE IF SelectSeq(productTokens, Meaningful) # << >>
          THEN FirstWhere(productTokens, Meaningful)
     ELSE IF joined # << >> THEN joined ELSE productTokens[1]

\* Words of raw asset names: vendors known and unknown to the tables, generic
\* words, versions of each pattern.
RawWord ==
  [ Apache |-> <<"A", "p", "a", "c", "h", "e">>,
    HTTP |-> <<"H", "T", "T", "P">>,
    Server |-> <<"S", "e", "r", "v", "e", "r">>,
    Proxy |-> <<"P", "r", "o", "x", "y">>,
    cisco |-> <<"c", "i", "s", "c", "o">>,
    OpenSSL |-> <<"O", "p", "e", "n", "S", "S", "L">>,
    v2_4_51 |-> <<"2", ".", "4", ".", "5", "1">>,
    v10_0s0 |-> <<"1", "0", ".", "0", "s", "0">>,
    vv2 |-> <<"v", "2">>,
    v2 |-> <<"2">>,
    Microsoft |-> <<"M", "i", "c", "r", "o", "s", "o", "f", "t">>,
    Office |-> <<"O", "f", "f", "i", "c", "e">>,
    v2019 |-> <<"2", "0", "1", "9">>,
    v16 |-> <<"1", "6">>,
    eWon_Firmware |-> <<"e", "W", "o", "n", "-", "F", "i", "r", "m", "w", "a", "r", "e">>,
    vv1_2_3_4ab |-> <<"v", "1", ".", "2", ".", "3", ".", "4", "a", "b">> ]

\* words.join(' ')
RECURSIVE JoinSpace(_)
JoinSpace(words) ==
  IF Len(words) = 0 THEN << >>
  ELSE IF Len(words) = 1 THEN words[1]
  ELSE words[1] \o << " " >> \o JoinSpace(Tail(words))

\* Raw asset names: the texts of at most MaxWords words of a pool, and the
\* longer texts "Apache HTTP Server 2.4.51", "Microsoft Office 2019 16",
\* "eWon-Firmware v1.2.3.4ab 2", "Apache HTTP Proxy Server".
RawTexts ==
  LET pool == { RawWord.Apache, RawWord.HTTP, RawWord.Server, RawWord.cisco,
                RawWord.OpenSSL, RawWord.v2_4_51, RawWord.v10_0s0, RawWord.vv2,
                RawWord.v2 }
      RECURSIVE WordLists(_)
      WordLists(n) ==
        IF n = 0 THEN { << >> }
        ELSE WordLists(n - 1) \cup
             { Append(l, w) : l \in {m \in WordLists(n - 1) : Len(m) = n - 1}, w \in pool }
  IN { JoinSpace(l) : l \in WordLists(MaxWords) }
     \cup { JoinSpace(<< RawWord.Apache, RawWord.HTTP, RawWord.Server, RawWord.v2_4_51 >>),
            JoinSpace(<< RawWord.Microsoft, RawWord.Office, RawWord.v2019, RawWord.v16 >>),
            JoinSpace(<< RawWord.eWon_Firmware, RawWord.vv1_2_3_4ab, RawWord.v2 >>),
            JoinSpace(<< RawWord.Apache, RawWord.HTTP, RawWord.Proxy, RawWord.Server >>) }

\* A call parseAsset(rawAssetName) before its first step.
ParseCall(rawAssetName) ==
  [kind |-> "parse", pc |-> "extract", raw |-> rawAssetName, version |-> << >>,
   normalized |-> << >>, tokens |-> << >>, vendor |-> << >>, product |-> << >>,
   versionCandidates |-> << >>]

InitParse ==
  /\ clock = StartTime
  /\ ticks = 0
  /\ lastRequestTime = 0
  /\ cache = << >>
  /\ requests = << >>
  /\ arrivals = 0
  /\ active = SearchProcs
  /\ proc \in [SearchProcs -> { ParseCall(t) : t \in RawTexts }]

\* Lines 234-239: the version is taken out of the raw text, the rest is
\* normalised and split into tokens.
ParseAssetTokens(p) ==
  /\ proc[p].kind = "parse"
  /\ proc[p].pc = "extract"
  /\ \E x \in {ExtractVersionFromRaw(proc[p].raw)} :
       \E normalized \in {NormalizedText(x.textWithoutVersion, FALSE)} :
          proc' = [proc EXCEPT ![p].pc = "tokens",
                               ![p].version = x.version,
                               ![p].tokens = Words(normalized)]
  /\ UNCHANGED <<clock, ticks, lastRequestTime, cache, requests, arrivals, active>>

\* Lines 241-256: vendor, product, version candidates, the normalised text;
\* the ParsedAsset is returned.
ParseAssetReturn(p) ==
  /\ proc[p].kind = "parse"
  /\ proc[p].pc = "tokens"
  /\ \E f \in {proc[p]} :
       \E vendor \in {VendorExtractor(f.tokens)} :
          proc' = [proc EXCEPT ![p].pc = "done",
                               ![p].vendor = vendor,
                               ![p].product = ProductExtractor(f.tokens, vendor),
                               ![p].versionCandidates =
                                  IF f.version # << >> THEN << f.version >>
                                  ELSE VersionCandidatesExtractor(f.tokens),
                               ![p].normalized = NormalizedText(f.raw, TRUE)]
  /\ UNCHANGED <<clock, ticks, lastRequestTime, cache, requests, arrivals, active>>

NextParse ==
  \/ \E p \in SearchProcs : ParseAssetTokens(p)
  \/ \E p \in SearchProcs : ParseAssetReturn(p)

\* parseAsset on every raw text of RawTexts.
SpecParse == InitParse /\ [][NextParse]_vars

\* The parseAsset calls that returned.
Parsed == {p \in SearchProcs : proc[p].kind = "parse" /\ proc[p].pc = "done"}

\* ------------------------------------------------------------------ claims
\* The outbound requests of caller p.
Outbound(p) == {i \in 1..Len(requests) : requests[i].proc = p}

Finds == {p \in Procs : proc[p].kind = "find"}

\* C1: any two outbound requests to the catalog are issued at least
\* MIN_REQUEST_INTERVAL_MS apart, whatever the interleaving of the callers.
C1_RequestsSpaced ==
  \A i, j \in 1..Len(requests) :
     i < j => requests[j].time - requests[i].time >= MIN_REQUEST_INTERVAL_MS

\* C2: once a request for a fingerprint has been answered, no second request
\* for the same fingerprint is issued less than CACHE_TTL_MS after it, also
\* when the second call started while the first was waiting or in flight.
C2_OneFetchPerFingerprint ==
  \A i, j \in 1..Len(requests) :
     (i < j /\ requests[i].key = requests[j].key /\ requests[i].outcome = "ok")
        => requests[j].time - requests[i].time >= CACHE_TTL_MS

\* C3: a payload is served from the cache only at an age below CACHE_TTL_MS,
\* and a lookup that finds an entry of age CACHE_TTL_MS or more goes to the
\* catalog: every outbound request found no entry or one that old.
C3_ServedOnlyIfFresh ==
  /\ \A p \in Procs : \A k \in 1..Len(proc[p].obtained) :
        proc[p].obtained[k].fromCache => proc[p].obtained[k].age < CACHE_TTL_MS
  /\ \A i \in 1..Len(requests) :
        requests[i].entryAge = -1 \/ requests[i].entryAge >= CACHE_TTL_MS

\* C3 witness: a caller was served an entry cached by an earlier call, and
\* another lookup of the same key went to the catalog past the TTL.
C3_Witness ==
  \E p \in Procs : \E k \in 1..Len(proc[p].obtained) :
     /\ proc[p].obtained[k].fromCache
     /\ proc[p].obtained[k].age = CACHE_TTL_MS - 5000

\* C4: callers held by the rate limiter issue their requests in the order in
\* which they arrived at queryNvdApi.
C4_ArrivalOrderFifo ==
  \A i, j \in 1..Len(requests) :
     (i < j /\ requests[i].waited /\ requests[j].waited)
        => requests[i].arrival < requests[j].arrival

\* The k-th reply obtained by caller p, and the number obtained so far.
Got(p, k) == proc[p].obtained[k].data

NumGot(p) == Len(proc[p].obtained)

\* progressiveSearch of caller p has returned its result set.
Returned(p) ==
  \/ proc[p].pc = "return"
  \/ /\ proc[p].pc = "done"
     /\ proc[p].events # <<>>
     /\ proc[p].events[Len(proc[p].events)].type = "completed"

C6_VersionTooSpecific ==
  \A p \in Finds :
     ( /\ BaseQuery(proc[p].parsed) # <<>>
       /\ proc[p].parsed.version # <<>>
       /\ NumGot(p) >= 2
       /\ ~proc[p].obtained[1].fromCache
       /\ ~proc[p].obtained[2].fromCache
       /\ TotalOf(Got(p, 1)) > 10
       /\ TotalOf(Got(p, 2)) = 0
       /\ proc[p].pc # "resume" )
     => /\ proc[p].pc \in {"return", "done"}
        /\ NumGot(p) = 2
        /\ Cardinality(Outbound(p)) = 2
        /\ proc[p].results = ProductsOf(Got(p, 1))

\* C6 witness: the version query reported 0 and the pipeline finished with a
\* non-empty R0 that differs from the version reply's products.
C6_Witness ==
  \E p \in Finds :
     /\ proc[p].parsed.version # <<>>
     /\ NumGot(p) = 2
     /\ TotalOf(Got(p, 1)) > 10
     /\ TotalOf(Got(p, 2)) = 0
     /\ proc[p].pc = "done"
     /\ proc[p].results # <<>>
     /\ proc[p].results # ProductsOf(Got(p, 2))

\* A query of the narrowing loop was the last to return for p, with 0 results.
Overshot(p) ==
  /\ NumGot(p) >= 2
  /\ proc[p].obtained[NumGot(p)].site = "cand"
  /\ TotalOf(Got(p, NumGot(p))) = 0
  /\ proc[p].pc # "resume"

\* C7 as stated: when a narrowing query reports 0, the returned set is the
\* largest of the previously obtained sets that had more than 10 results.
C7_LargestPrevious ==
  \A p \in Finds :
     Overshot(p) =>
        \E k \in 1..(NumGot(p) - 1) :
           /\ TotalOf(Got(p, k)) > 10
           /\ proc[p].results = ProductsOf(Got(p, k))
           /\ \A j \in 1..(NumGot(p) - 1) :
                 TotalOf(Got(p, j)) > 10 => TotalOf(Got(p, j)) <= TotalOf(Got(p, k))

\* C7 amended: when a narrowing query reports 0, the search returns the set
\* obtained by the query before it, which had more than 10 results.
C7_PreviousSet ==
  \A p \in Finds :
     Overshot(p) =>
        /\ proc[p].pc \in {"return", "done"}
        /\ TotalOf(Got(p, NumGot(p) - 1)) > 10
        /\ proc[p].results = ProductsOf(Got(p, NumGot(p) - 1))

\* C7 witness: the second narrowing query overshot and the pipeline finished
\* with the first narrowing query's products, which are not the base result.
C7_Witness ==
  \E p \in Finds :
     /\ Overshot(p)
     /\ NumGot(p) = 3
     /\ proc[p].pc = "done"
     /\ proc[p].results = ProductsOf(Got(p, 2))
     /\ proc[p].results # ProductsOf(Got(p, 1))

\* C8: if the base query reports at least one result and every reply with
\* totalResults >= 1 carries a non-empty products page, the returned set is
\* not empty.
C8_NeverNarrowsToZero ==
  \A p \in Finds :
     ( /\ Returned(p)
       /\ NumGot(p) >= 1
       /\ TotalOf(Got(p, 1)) >= 1
       /\ \A k \in 1..NumGot(p) :
             TotalOf(Got(p, k)) >= 1 => ProductsOf(Got(p, k)) # <<>> )
     => proc[p].results # <<>>

\* C8 witness: a narrowing query reported 0 with no products and the
\* search still returned a non-empty set.
C8_Witness ==
  \E p \in Finds :
     /\ proc[p].pc = "return"
     /\ NumGot(p) >= 2
     /\ TotalOf(Got(p, 1)) >= 1
     /\ \A k \in 1..NumGot(p) :
           TotalOf(Got(p, k)) >= 1 => ProductsOf(Got(p, k)) # <<>>
     /\ Got(p, NumGot(p)) = NoData
     /\ proc[p].results # <<>>

\* C9: once the base query has succeeded, a failing narrowing query is not
\* fatal: the pipeline ends with a completed event.
C9_NarrowingErrorNotFatal ==
  \A p \in Finds :
     (proc[p].pc = "done" /\ NumGot(p) >= 1)
        => proc[p].events[Len(proc[p].events)].type = "completed"

Terminal(e) == e.type \in {"completed", "error"}

\* C10: in a findCpe stream every event but the last is a progress event; the
\* stream is closed exactly when its last event is completed or error; and
\* a handler that emitted events and finished has written that terminal event.
C10_OneTerminalEvent ==
  \A p \in Finds :
     LET ev == proc[p].events
     IN /\ \A i \in 1..(Len(ev) - 1) : ev[i].type = "progress"
        /\ proc[p].closed <=> (ev # <<>> /\ Terminal(ev[Len(ev)]))
        /\ (proc[p].pc = "done" /\ ev # <<>>)
              => (Terminal(ev[Len(ev)]) /\ proc[p].closed)

\* C10 witness: a stream ended with an error event after a query had
\* succeeded, and is closed.
C10_Witness ==
  \E p \in Finds :
     /\ proc[p].pc = "done"
     /\ NumGot(p) >= 1
     /\ Len(proc[p].events) = 2
     /\ proc[p].events[2].type = "error"
     /\ proc[p].closed

\* The phases of the progress channel, in pipeline order; completed and error
\* are the terminal ones.
Phases == <<"parsing", "searching", "scoring", "ranking", "completed", "error">>

PhaseIndex(step) == CHOOSE i \in 1..Len(Phases) : Phases[i] = step

\* C11: in one findCpe pipeline the phases of the emitted events strictly
\* increase in the order of Phases: none is emitted twice, none goes back.
C11_PhasesIncrease ==
  \A p \in Finds :
     \A i, j \in 1..Len(proc[p].events) :
        i < j => PhaseIndex(proc[p].events[i].step) < PhaseIndex(proc[p].events[j].step)

\* C11 witness: a pipeline that searched the catalog finished with the events
\* parsing, ranking, completed.
C11_Witness ==
  \E p \in Finds :
     /\ proc[p].pc = "done"
     /\ NumGot(p) >= 2
     /\ [i \in 1..Len(proc[p].events) |-> proc[p].events[i].step]
           = <<"parsing", "ranking", "completed">>

\* The events of phase searching that caller p has emitted.
Searching(p) ==
  {i \in 1..Len(proc[p].events) : proc[p].events[i].step = "searching"}

\* C12: every catalog query of progressiveSearch is preceded by a searching
\* event emitted for it: a pipeline has emitted at least as many searching
\* events as it has sent requests.
C12_SearchingBeforeQuery ==
  \A p \in Finds : Cardinality(Searching(p)) >= Cardinality(Outbound(p))

\* C13: after the consumer cancelled at a suspension point the pipeline sends
\* no further catalog request and emits no ranking or completed event.
C13_CancelAborts ==
  \A p \in Finds :
     proc[p].cancelled =>
        /\ Cardinality(Outbound(p)) = proc[p].requestsAtCancel
        /\ \A i \in (proc[p].eventsAtCancel + 1)..Len(proc[p].events) :
              proc[p].events[i].step \notin {"ranking", "completed"}

\* C14: every started findCpe pipeline eventually writes a terminal event and
\* every validateCpe call eventually returns, also when a request gets no
\* response: the per-request timeout ends it.
C14_EveryCallEnds ==
  \A p \in SearchProcs : (proc[p].pc # "idle") ~> (proc[p].pc = "done")

\* C15: lastRequestTime is never later than the current time.
C15_LastRequestNotInFuture == lastRequestTime <= clock

\* C15 witness: a held caller woke and stamped lastRequestTime with the
\* current time, after an earlier request had failed.
C15_Witness ==
  /\ lastRequestTime = clock
  /\ \E i, j \in 1..Len(requests) :
        /\ i < j
        /\ requests[i].outcome = "failed"
        /\ requests[j].waited
        /\ requests[j].time = clock

\* C16: when the parsed asset has neither vendor nor product, the raw text is
\* the base query and the usual steps follow: a raw-text reply with more than
\* 10 results is narrowed with the asset's version, not returned.
C16_RawFallbackNarrows ==
  \A p \in Finds :
     ( /\ BaseQuery(proc[p].parsed) = <<>>
       /\ proc[p].parsed.version # <<>>
       /\ NumGot(p) = 1
       /\ TotalOf(Got(p, 1)) > NARROW_TARGET )
     => proc[p].pc \notin {"return", "done"}

\* The completed events of caller p.
CompletedEvents(p) ==
  {i \in 1..Len(proc[p].events) : proc[p].events[i].type = "completed"}

\* C19: in the completed payload count is the number of candidates and is at
\* most min(limit, totalFound); the limit is DEFAULT_TOP_N when the caller
\* gave no topN and is never above TOP_N_CAP.
C19_CountWithinLimit ==
  \A p \in Finds :
     /\ proc[p].status = 200 =>
           /\ proc[p].resultLimit <= TOP_N_CAP
           /\ proc[p].topN = "" => proc[p].resultLimit = DEFAULT_TOP_N
     /\ \A i \in CompletedEvents(p) :
           LET e == proc[p].events[i]
           IN /\ e.count = Len(e.candidates)
              /\ e.count <= Min(proc[p].resultLimit, e.totalFound)
              /\ e.totalFound = Len(proc[p].results)

\* C19 witness: a caller that asked for one candidate got one of two found.
C19_Witness ==
  \E p \in Finds : \E i \in CompletedEvents(p) :
     /\ proc[p].topN = "1"
     /\ proc[p].events[i].count = 1
     /\ proc[p].events[i].totalFound = 2

\* The position of a candidate's record in the product list of call p.
InputIndex(p, candidate) ==
  CHOOSE i \in 1..Len(proc[p].cpeProducts) :
     proc[p].cpeProducts[i].cpeNameId = candidate.cpeNameId

\* C17: the list rankCpeCandidates returns is non-increasing in score, and
\* candidates with equal scores keep the relative order of the product list.
C17_SortedAndStable ==
  \A p \in Ranks :
     \A i, j \in 1..Len(proc[p].ranked) :
        i < j =>
           /\ proc[p].ranked[i].score >= proc[p].ranked[j].score
           /\ proc[p].ranked[i].score = proc[p].ranked[j].score
                => InputIndex(p, proc[p].ranked[i]) < InputIndex(p, proc[p].ranked[j])

\* C17 witness: a returned list in which two candidates of equal score stand
\* first, in their input order, ahead of the candidate that came first in the
\* input.
C17_Witness ==
  \E p \in Ranks :
     /\ proc[p].pc = "done"
     /\ Len(proc[p].ranked) = 3
     /\ proc[p].ranked[1].score = proc[p].ranked[2].score
     /\ proc[p].ranked[2].score > proc[p].ranked[3].score
     /\ InputIndex(p, proc[p].ranked[3]) = 1

\* The number of products of call p that carry a cpeName.
NumNamed(p) ==
  Cardinality({i \in 1..Len(proc[p].cpeProducts) : HasCpeName(proc[p].cpeProducts[i])})

\* C18: rankCpeCandidates returns exactly min(topN, n) candidates, n being the
\* number of products with a cpeName; an empty list gives an empty list.
C18_ExactlyMinTopN ==
  \A p \in Ranks :
     proc[p].pc = "done" =>
        /\ Len(proc[p].ranked) = Min(proc[p].topN, NumNamed(p))
        /\ Len(proc[p].cpeProducts) = 0 => proc[p].ranked = << >>

\* C18 witness: topN = 2 on five candidates returned two.
C18_Witness ==
  \E p \in Ranks :
     /\ proc[p].pc = "done"
     /\ proc[p].topN = 2
     /\ NumNamed(p) = 5
     /\ Len(proc[p].ranked) = 2

\* A sub-score lies in [0, 1].
UnitFraction(x) == x[2] > 0 /\ 0 <= x[1] /\ x[1] <= x[2]

\* C20: for every parsed asset and every candidate, wildcard and malformed
\* names included, the four sub-scores are in [0, 1] and the composite score
\* is in [0, 100].
C20_ScoresBounded ==
  \A p \in Ranks :
     \A i \in 1..Len(proc[p].candidates) :
        LET c == proc[p].candidates[i]
        IN /\ UnitFraction(c.breakdown.vendorScore)
           /\ UnitFraction(c.breakdown.productScore)
           /\ UnitFraction(c.breakdown.versionScore)
           /\ UnitFraction(c.breakdown.tokenOverlapScore)
           /\ 0 <= c.score /\ c.score <= 100 * 100

\* C20 witness: a name with too few fields and a name that matches the asset
\* in everything, reaching the composite score 100, were scored in one call.
C20_Witness ==
  \E p \in Ranks :
     \E i, j \in 1..Len(proc[p].candidates) :
        /\ Len(proc[p].candidates[i].deconstructed.tokens) = 0
        /\ proc[p].candidates[j].score = 100 * 100

\* The catalog replies caller p's queries obtained, in order.
RepliesOf(p) == [k \in 1..NumGot(p) |-> Got(p, k)]

\* Caller p's pipeline ran to its completed event.
Completes(p) ==
  /\ proc[p].pc = "done"
  /\ proc[p].events # << >>
  /\ proc[p].events[Len(proc[p].events)].type = "completed"

C22_TokensExcludeVersion ==
  \A p \in Parsed :
     proc[p].version # << >> =>
        \A i \in 1..Len(proc[p].tokens) : proc[p].tokens[i] # proc[p].version

\* The validateCpe calls.
Validations == {p \in SearchProcs : proc[p].kind = "validate"}

\* A string fails the syntactic phase: it does not begin with cpe:2.3:
\* (in either case), its part is not a, o or h, or its vendor is missing or *.
SyntaxFails(c) ==
  LET f == LowerFields(c)
  IN \/ ~(Len(f) >= 3 /\ f[1] = "cpe" /\ f[2] = "2.3")
     \/ f[3] \notin {"a", "o", "h"}
     \/ Len(f) < 4
     \/ f[4] \in {"", "*"}

\* C23: validateCpe on a string that fails the syntactic phase returns
\* isValid = false with a reason and makes no catalog call: no request, no
\* arrival at the rate limiter, cache and lastRequestTime as they were.
C23_SyntaxFailureNoCall ==
  \A p \in Validations :
     SyntaxFails(proc[p].cpeString) =>
        /\ proc[p].pc = "done"
        /\ ~proc[p].vresult.isValid
        /\ proc[p].vresult.message # None
        /\ requests = << >> /\ arrivals = 0
        /\ cache = << >> /\ lastRequestTime = 0

\* C23 witness: a string with the vendor * was refused.
C23_Witness ==
  \E p \in Validations :
     /\ proc[p].pc = "done"
     /\ Len(proc[p].cpeString) >= 4 /\ proc[p].cpeString[4] = "*"
     /\ ~proc[p].vresult.isValid
     /\ proc[p].vresult.message = "vendor"

\* The catalog call of caller p failed.
LookupFailed(p) == \E i \in Outbound(p) : requests[i].outcome = "failed"

\* C24: when the catalog call of validateCpe fails, the call still returns
\* a result, which reports the CPE as valid but unverified: isValid = true,
\* existsInNvd = false, exactMatch = false, deprecated = false.
C24_LookupFailureUnverified ==
  \A p \in Validations :
     LookupFailed(p) =>
        /\ proc[p].pc \in {"throw", "done"}
        /\ proc[p].pc = "done" =>
              /\ proc[p].vresult.isValid
              /\ ~proc[p].vresult.existsInNvd
              /\ ~proc[p].vresult.exactMatch
              /\ ~proc[p].vresult.deprecated

\* C24 witness: a call whose request failed has returned its result.
C24_Witness ==
  \E p \in Validations :
     /\ LookupFailed(p)
     /\ proc[p].pc = "done"
     /\ proc[p].vresult.isValid
     /\ proc[p].vresult.message = "lookup failed"

\* The validateCpe calls that returned after the catalog replied, with a
\* reply whose totalResults is 0 exactly when it carries no record.
Classified ==
  {p \in Validations :
      /\ proc[p].pc = "done"
      /\ NumGot(p) = 1
      /\ (TotalOf(Got(p, 1)) = 0) = (ProductsOf(Got(p, 1)) = << >>)}

\* The indexes of the records of caller p's reply whose cpeName equals the
\* input, capitals apart.
Matching(p) ==
  {j \in 1..Len(ProductsOf(Got(p, 1))) :
      LowerFields(ProductsOf(Got(p, 1))[j].cpeName) = LowerFields(proc[p].cpeString)}

\* C25: for a syntactically valid CPE the reply is classified as absent when
\* no record is returned, exact-match when a returned record's cpeName
\* equals the input case-insensitively, partial-match otherwise; on an exact
\* match the result's deprecated field is the flag of the matched record
\* (the first such record).
C25_ReplyClassified ==
  \A p \in Classified :
     LET r == proc[p].vresult
         products == ProductsOf(Got(p, 1))
     IN /\ r.isValid
        /\ products = << >> => (~r.existsInNvd /\ ~r.exactMatch)
        /\ Matching(p) # {} =>
              /\ r.existsInNvd /\ r.exactMatch
              /\ r.deprecated =
                    products[CHOOSE j \in Matching(p) : \A k \in Matching(p) : j <= k].deprecated
        /\ (products # << >> /\ Matching(p) = {}) => (r.existsInNvd /\ ~r.exactMatch)

\* C25 witness: an input in capitals matched the second record of the
\* reply, which is deprecated, behind a current record of another version.
C25_Witness ==
  \E p \in Classified :
     /\ proc[p].cpeString[1] = "CPE"
     /\ Matching(p) = {2}
     /\ proc[p].vresult.exactMatch
     /\ proc[p].vresult.deprecated

\* C26: findCpe reports an assetName whose trimmed length is below 2 and a
\* topN outside [1, 20] to the caller as invalid input (status 400), without
\* a progress event and without a catalog call.
C26_InvalidInputReported ==
  \A p \in Finds :
     ( \/ proc[p].assetName.length < 2
       \/ (proc[p].topN # "" /\ NumberOf(proc[p].topN) \notin 1..20) )
     => /\ proc[p].status = 400
        /\ proc[p].events = << >>
        /\ Outbound(p) = {}

\* The calls rankCpeCandidates(asset, products, 5) of the test script that
\* have returned.
TestRun(asset, products) ==
  { p \in Ranks : /\ proc[p].pc = "done"
                  /\ proc[p].parsedAsset = asset
                  /\ proc[p].cpeProducts = products
                  /\ proc[p].topN = DEFAULT_TOP_N }

\* The position of the record with the given cpeNameId in a ranked list; 0
\* when the list does not hold it.
RankOf(ranked, id) ==
  IF \E i \in 1..Len(ranked) : ranked[i].cpeNameId = id
  THEN CHOOSE i \in 1..Len(ranked) : ranked[i].cpeNameId = id
  ELSE 0

ScoredAs(p, id) ==
  proc[p].candidates[CHOOSE i \in 1..Len(proc[p].candidates) :
                        proc[p].candidates[i].cpeNameId = id]

\* C28: for the asset without vendor, product nginx, version 1.24.0, tokens
\* [nginx], the candidate cpe:2.3:a:nginx:nginx:1.24.0 gets the vendor
\* sub-score 0 and a composite score of at least 80.
C28_NoVendorStillScores ==
  \A p \in TestRun(TestScript.noVendorAsset, TestScript.nginxCpeProducts) :
     LET c == ScoredAs(p, Catalog.Nginx.cpeNameId)
     IN /\ c.breakdown.vendorScore[1] = 0
        /\ c.score >= 80 * 100

\* C28, amended: the candidate gets the vendor sub-score 0 and the composite
\* score 63.75 (product 1, version 1, token overlap 1/4).
C28_NoVendorScore ==
  \A p \in TestRun(TestScript.noVendorAsset, TestScript.nginxCpeProducts) :
     LET c == ScoredAs(p, Catalog.Nginx.cpeNameId)
     IN /\ c.breakdown.vendorScore[1] = 0
        /\ c.score = 6375

\* C28 witness: the call of the test without vendor has returned, with the
\* nginx record first.
C28_Witness ==
  \E p \in TestRun(TestScript.noVendorAsset, TestScript.nginxCpeProducts) :
     /\ Len(proc[p].parsedAsset.vendor) = 0
     /\ proc[p].ranked[1].cpeNameId = Catalog.Nginx.cpeNameId

\* C29: for the asset with vendor and product wordpres and version 6.4.2, the
\* candidate cpe:2.3:a:wordpress:wordpress:6.4.2 gets the vendor sub-score
\* 0.5, a product sub-score of at least 0.88, the version sub-score 1.0 and a
\* composite score of at least 70.
C29_TypoTolerated ==
  \A p \in TestRun(TestScript.typoAsset, TestScript.typoCpeProducts) :
     LET c == ScoredAs(p, Catalog.Wordpress.cpeNameId)
         b == c.breakdown
     IN /\ 2 * b.vendorScore[1] = b.vendorScore[2]
        /\ 100 * b.productScore[1] >= 88 * b.productScore[2]
        /\ b.versionScore[1] = b.versionScore[2]
        /\ c.score >= 70 * 100

\* C29, amended: the vendor sub-score is 0.7 (wordpres is a substring of
\* wordpress); the product sub-score is at least 0.88, the version sub-score
\* 1.0 and the composite score at least 70.
C29_TypoBySubstring ==
  \A p \in TestRun(TestScript.typoAsset, TestScript.typoCpeProducts) :
     LET c == ScoredAs(p, Catalog.Wordpress.cpeNameId)
         b == c.breakdown
     IN /\ 10 * b.vendorScore[1] = 7 * b.vendorScore[2]
        /\ 100 * b.productScore[1] >= 88 * b.productScore[2]
        /\ b.versionScore[1] = b.versionScore[2]
        /\ c.score >= 70 * 100

\* C29 witness: the call of the typo test has returned, with the wordpress
\* record, one edit away from the asset's vendor, first.
C29_Witness ==
  \E p \in TestRun(TestScript.typoAsset, TestScript.typoCpeProducts) :
     /\ proc[p].ranked[1].cpeNameId = Catalog.Wordpress.cpeNameId
     /\ LevenshteinDistance(proc[p].parsedAsset.vendor,
                            proc[p].ranked[1].deconstructed.vendor) = 1

\* Caller p's queryNvdApi call finds a fresh entry for its key.
FreshEntry(p) ==
  /\ proc[p].pc = "lookup"
  /\ KeyOf(p) \in DOMAIN cache
  /\ clock - cache[KeyOf(p)].timestamp < CACHE_TTL_MS

\* C30: a queryNvdApi call answered from a fresh cache entry returns the
\* entry's data in the same macrotask, without an outbound request and
\* without reaching the rate limiter, and leaves lastRequestTime and every
\* cache entry unchanged.
C30_CacheHitFrame ==
  [][ \A p \in Procs :
        (FreshEntry(p) /\ proc'[p] # proc[p])
        => /\ proc'[p].pc = "resume"
           /\ proc'[p].ret = cache[KeyOf(p)].data
           /\ active' = {p}
           /\ clock' = clock
           /\ requests' = requests
           /\ arrivals' = arrivals
           /\ lastRequestTime' = lastRequestTime
           /\ cache' = cache ]_vars

\* C30 witness: a call has just been answered from an entry stored earlier,
\* at a time later than the last outbound request.
C30_Witness ==
  \E p \in Procs :
     /\ proc[p].pc = "resume"
     /\ Len(proc[p].obtained) > 0
     /\ proc[p].obtained[Len(proc[p].obtained)].fromCache
     /\ proc[p].obtained[Len(proc[p].obtained)].age > 0
     /\ lastRequestTime < clock

\* A step in which the outbound request of caller p fails.
RequestFails(p) ==
  /\ proc[p].pc = "fetching"
  /\ proc'[p].pc = "throw"

\* The failing step writes and changes no cache entry, raises the error in
\* the caller, and finds lastRequestTime at or after the time of the attempt.
C31_FailureFrame ==
  [][ \A p \in Procs :
        RequestFails(p)
        => /\ cache' = cache
           /\ active' = {p}
           /\ lastRequestTime' = lastRequestTime
           /\ lastRequestTime >= requests[proc[p].reqIdx].time ]_vars

\* Every request issued after a request that failed is issued at least
\* MIN_REQUEST_INTERVAL_MS after it.
C31_SpacedAfterFailure ==
  \A i, j \in 1..Len(requests) :
     (i < j /\ requests[i].outcome = "failed")
        => requests[j].time - requests[i].time >= MIN_REQUEST_INTERVAL_MS

\* C31: when the outbound request of queryNvdApi fails, no cache entry is
\* written or changed and the error propagates to the caller, while
\* lastRequestTime has already been advanced to the time of the attempt, so
\* that the next outbound request is at least MIN_REQUEST_INTERVAL_MS after
\* the failed one.
C31_FailedRequest == C31_FailureFrame /\ []C31_SpacedAfterFailure

\* Caller p's search, for an asset with a known version, got more than
\* NARROW_TARGET results from the catalog for its base query and for its
\* version query, and is not about to continue.
BothTooMany(p) ==
  /\ BaseQuery(proc[p].parsed) # <<>>
  /\ proc[p].parsed.version # <<>>
  /\ NumGot(p) >= 2
  /\ ~proc[p].obtained[1].fromCache
  /\ ~proc[p].obtained[2].fromCache
  /\ TotalOf(Got(p, 1)) > NARROW_TARGET
  /\ TotalOf(Got(p, 2)) > NARROW_TARGET
  /\ proc[p].pc \notin {"resume", "lookup"}

OccursIn(b, a) ==
  \E i \in 0..Len(a) : i + Len(b) <= Len(a) /\ \A k \in 1..Len(b) : a[i + k] = b[k]

\* The vendor sub-score the rule list gives, in tenths: the first rule that
\* applies decides.
VendorRule(assetVendor, cpeVendor) ==
  LET a == ToLowerCase(assetVendor)
      c == ToLowerCase(cpeVendor)
  IN CASE assetVendor = << >> -> 0
       [] assetVendor # << >> /\ cpeVendor = Star -> 3
       [] assetVendor # << >> /\ cpeVendor # Star /\ a = c -> 10
       [] assetVendor # << >> /\ cpeVendor # Star /\ a # c
            /\ (OccursIn(a, c) \/ OccursIn(c, a)) -> 7
       [] assetVendor # << >> /\ cpeVendor # Star /\ a # c
            /\ ~(OccursIn(a, c) \/ OccursIn(c, a))
            /\ LevenshteinDistance(a, c) <= 2 -> 5
       [] OTHER -> 0

\* C33: scoreVendor applies its rules in this order and returns the first
\* that matches: asset vendor absent -> 0; CPE vendor * -> 0.3;
\* case-insensitive equality -> 1.0; either string a substring of the
\* other -> 0.7; Levenshtein distance <= 2 -> 0.5; otherwise 0.
C33_VendorRulesInOrder ==
  \A p \in Ranks :
     \A i \in 1..Len(proc[p].candidates) :
        LET c == proc[p].candidates[i]
        IN c.breakdown.vendorScore =
             << VendorRule(proc[p].parsedAsset.vendor, c.deconstructed.vendor), 10 >>

\* C33 witness: in one call a candidate whose vendor contains the asset's
\* vendor, one edit away from it, was scored 0.7, and a candidate with the
\* vendor * was scored 0.3.
C33_Witness ==
  \E p \in Ranks :
     \E i, j \in 1..Len(proc[p].candidates) :
        LET c == proc[p].candidates[i]
        IN /\ OccursIn(proc[p].parsedAsset.vendor, c.deconstructed.vendor)
           /\ LevenshteinDistance(proc[p].parsedAsset.vendor, c.deconstructed.vendor) = 1
           /\ c.breakdown.vendorScore = <<7, 10>>
           /\ proc[p].candidates[j].deconstructed.vendor = Star
           /\ proc[p].candidates[j].breakdown.vendorScore = <<3, 10>>

\* The version sub-score the rule list gives, in hundredths.
VersionRule(assetVersion, cpeVersion) ==
  LET a == ToLowerCase(assetVersion)
      c == ToLowerCase(cpeVersion)
      x == ParseVersion(a)
      y == ParseVersion(c)
      present == assetVersion # << >> /\ cpeVersion # Star
      Apart(m, n) == IF m >= n THEN m - n ELSE n - m
  IN CASE ~present -> 30
       [] present /\ a = c -> 100
       [] present /\ a # c /\ x.major = y.major /\ x.minor = y.minor
            /\ x.patch = y.patch -> 95
       [] present /\ a # c /\ x.major = y.major /\ x.minor = y.minor
            /\ x.patch # y.patch -> 80
       [] present /\ a # c /\ x.major = y.major /\ x.minor # y.minor -> 50
       [] present /\ a # c /\ x.major # y.major /\ IsYear(a) /\ IsYear(c)
            /\ Apart(ParseInt(a), ParseInt(c)) <= 1 -> 60
       [] OTHER -> 0

\* C34: scoreVersion returns 0.3 when the asset version is absent or the CPE
\* version is *, 1.0 on case-insensitive equality, 0.95 when major, minor and
\* patch are all equal, 0.8 when only major and minor are equal, 0.5 when
\* only major is equal, 0.6 for two different 4-digit years at most 1 apart,
\* and 0 otherwise.
C34_VersionRules ==
  \A p \in Ranks :
     \A i \in 1..Len(proc[p].candidates) :
        LET c == proc[p].candidates[i]
        IN 100 * c.breakdown.versionScore[1] =
             VersionRule(proc[p].parsedAsset.version, c.deconstructed.version)
                * c.breakdown.versionScore[2]

\* C34 witness: in one call for an asset whose version is a year, a candidate
\* of the next year was scored 0.6, a candidate two years away 0, and a
\* candidate with another kind of version 0.
C34_Witness ==
  \E p \in Ranks :
     /\ IsYear(proc[p].parsedAsset.version)
     /\ Len(proc[p].candidates) = 3
     /\ proc[p].candidates[3].breakdown.versionScore = <<60, 100>>
     /\ IsYear(proc[p].candidates[1].deconstructed.version)
     /\ proc[p].candidates[1].breakdown.versionScore = <<0, 100>>
     /\ proc[p].candidates[2].breakdown.versionScore = <<0, 100>>

\* C35: for an asset with a known version and two candidates with identical
\* vendor and product attributes, the candidate whose version equals the
\* asset version gets a strictly higher composite score than the candidate
\* whose version is the wildcard *, whatever the token overlap.
C35_ExactVersionBeatsWildcard ==
  \A p \in Ranks :
     \A i, j \in 1..Len(proc[p].candidates) :
        LET exact == proc[p].candidates[i]
            any == proc[p].candidates[j]
        IN ( /\ proc[p].parsedAsset.version # << >>
             /\ exact.deconstructed.vendor = any.deconstructed.vendor
             /\ exact.deconstructed.product = any.deconstructed.product
             /\ exact.deconstructed.version = proc[p].parsedAsset.version
             /\ exact.deconstructed.version # Star
             /\ any.deconstructed.version = Star )
           => exact.score > any.score

\* C35 witness: such a pair was scored, and the wildcard candidate has the
\* full token overlap while the candidate with the asset's version has not.
C35_Witness ==
  \E p \in Ranks :
     \E i, j \in 1..Len(proc[p].candidates) :
        LET exact == proc[p].candidates[i]
            any == proc[p].candidates[j]
        IN /\ exact.deconstructed.vendor = any.deconstructed.vendor
           /\ exact.deconstructed.product = any.deconstructed.product
           /\ exact.deconstructed.version = proc[p].parsedAsset.version
           /\ any.deconstructed.version = Star
           /\ any.breakdown.tokenOverlapScore[1] = any.breakdown.tokenOverlapScore[2]
           /\ 2 * exact.breakdown.tokenOverlapScore[1] = exact.breakdown.tokenOverlapScore[2]

\* The number of colon-separated fields of a name.
FieldCount(cpeName) == Cardinality({i \in 1..Len(cpeName) : cpeName[i] = ":"}) + 1

\* C36: a candidate whose cpeName has fewer than 5 colon-separated fields is
\* deconstructed to the sentinel (all attributes empty, no tokens), is scored
\* without raising, and contributes zero: its composite score is 0 for every
\* parsed asset.
C36_MalformedScoresZero ==
  \A p \in Ranks :
     \A i \in 1..Len(proc[p].candidates) :
        LET c == proc[p].candidates[i]
        IN FieldCount(c.cpeName) < 5
           => /\ c.deconstructed.vendor = << >>
              /\ c.deconstructed.product = << >>
              /\ c.deconstructed.tokens = << >>
              /\ c.score = 0

\* The positions of the tokens that are a known vendor, as they stand or
\* without a corporate suffix.
KnownVendorTokens(tokens) ==
  {i \in 1..Len(tokens) : tokens[i] \in KNOWN_VENDORS
                             \/ StripSuffix(tokens[i]) \in KNOWN_VENDORS}

\* C37: for every name v in KNOWN_VENDORS, vendor extraction on a token list
\* in which v is the only known-vendor token returns v, wherever v stands in
\* the list.
C37_KnownVendorFound ==
  \A p \in Parsed :
     \A i \in 1..Len(proc[p].tokens) :
        (proc[p].tokens[i] \in KNOWN_VENDORS /\ KnownVendorTokens(proc[p].tokens) = {i})
           => proc[p].vendor = proc[p].tokens[i]

\* The tokens of a returned parse that remain after removing the vendor.
Remaining(p) ==
  LET NotVendor(t) == t # proc[p].vendor
  IN IF proc[p].vendor # << >> THEN SelectSeq(proc[p].tokens, NotVendor)
     ELSE proc[p].tokens

\* The case of the product fallback: tokens remain, the leading one is not a
\* known vendor, and none is a non-stop-word longer than 1 character.
FallsBack(p) ==
  /\ Remaining(p) # << >>
  /\ Remaining(p)[1] \notin KNOWN_VENDORS
  /\ \A i \in 1..Len(Remaining(p)) :
        Remaining(p)[i] \in NON_VENDOR_WORDS \/ Len(Remaining(p)[i]) <= 1

\* C38: in product extraction, when tokens remain after removing the vendor,
\* the leading one is not a known vendor, and none of them is a non-stop-word
\* longer than 1 character, the product is the first two remaining tokens
\* joined by a space (the single token when only one remains), for any number
\* of remaining tokens.
C38_FallbackJoinsFirstTwo ==
  \A p \in Parsed :
     FallsBack(p)
       => proc[p].product = IF Len(Remaining(p)) = 1 THEN Remaining(p)[1]
                            ELSE JoinSpace(SubSeq(Remaining(p), 1, 2))

\* The part of C38 that holds: with at most two remaining tokens.
C38_FallbackUpToTwo ==
  \A p \in Parsed :
     (FallsBack(p) /\ Len(Remaining(p)) <= 2)
       => proc[p].product = JoinSpace(Remaining(p))

\* The strings that scoreVersion hands to parseVersion in the scored
\* iterations of a call: the lower-cased asset and candidate versions, when
\* the asset has a version, the candidate's is not the wildcard and the two
\* differ.
VersionsParsed(p) ==
  UNION { LET assetLower == ToLowerCase(proc[p].parsedAsset.version)
              cpeLower == ToLowerCase(proc[p].candidates[i].deconstructed.version)
          IN IF /\ proc[p].parsedAsset.version # << >>
                /\ proc[p].candidates[i].deconstructed.version # Star
                /\ assetLower # cpeLower
             THEN {assetLower, cpeLower} ELSE {}
          : i \in 1..Len(proc[p].candidates) }

\* A version without its leading v or V.
WithoutV(w) == IF Len(w) > 0 /\ w[1] \in {"v", "V"} THEN Tail(w) ELSE w

\* C39: parseVersion captures a letter suffix of the last numeric segment
\* separately from the numeric fields: for 10.0s0 it yields major = 10,
\* minor = 0, patch = 0, suffix = s0, and a leading v or V is stripped before
\* parsing.
C39_SuffixParsedPatchZero ==
  \A p \in Ranks :
     \A w \in VersionsParsed(p) :
        /\ ParseVersion(w) = ParseVersion(WithoutV(w))
        /\ WithoutV(w) = Txt.v10_0s0
             => ParseVersion(w) = [major |-> <<"1", "0">>, minor |-> <<"0">>,
                                   patch |-> <<"0">>, suffix |-> <<"s", "0">>]

\* C39, amended: for 10.0s0 parseVersion yields major = 10, minor = 0, an
\* empty patch and suffix = s0, and a leading v or V is stripped before
\* parsing.
C39_SuffixParsedPatchEmpty ==
  \A p \in Ranks :
     \A w \in VersionsParsed(p) :
        /\ ParseVersion(w) = ParseVersion(WithoutV(w))
        /\ WithoutV(w) = Txt.v10_0s0
             => ParseVersion(w) = [major |-> <<"1", "0">>, minor |-> <<"0">>,
                                   patch |-> << >>, suffix |-> <<"s", "0">>]

\* A call has scored the asset version v10.0s0 against a candidate version
\* that differs from it.
C39_Witness ==
  \E p \in Ranks : Txt.vv10_0s0 \in VersionsParsed(p)

====
